---- MODULE Spec2Model ----
(***************************************************************************)
(* Model of the tasker worker pool (Manager) of mikills/tinkerings:        *)
(* New, worker, execute, applyJitter, Submit, TrySubmit, Shutdown.         *)
(*                                                                         *)
(* Goroutines are processes with a program counter.  A Go select is        *)
(* modelled as the gc runtime runs it: a goroutine entering a select takes *)
(* one of the cases that can proceed (any of them) or parks on all of its  *)
(* channels; closing the Done channel of the context (cancel) wakes every  *)
(* goroutine parked on it and commits it to the Done case.                 *)
(***************************************************************************)
EXTENDS Integers, Sequences, FiniteSets, TLC

\* ----------------------------------------------------------------- bounds
MaxWorkers == 2        \* largest n passed to New
MaxSubs == 2           \* Submit / TrySubmit calls made on one Manager
MaxShutdowns == 2      \* Shutdown calls made on one Manager
MaxK == 2              \* largest MaxAttempts of a bounded policy
DurBits == 28          \* width of a time.Duration in the model (64 in Go)
MaxDocs == 3           \* documents of the collection
MaxTime == 2           \* createdAt values are 1..MaxTime
MaxPage == 3           \* largest batch size given to NewBatchProcessor
MaxDrivers == 2        \* Run invocations on one collection

\* time.Millisecond in nanoseconds
Millisecond == 1000000

DurMod == 2 ^ DurBits
DurHalf == 2 ^ (DurBits - 1)

VARIABLES
    nArg,          \* the n given to New
    ctxDone,       \* m.ctx is cancelled (its Done channel is closed)
    wgCount,       \* m.wg counter
    wpc,           \* worker -> position in worker / execute
    wsub,          \* worker -> submission held by execute (0: none)
    attempts,      \* worker -> execute's attempts
    delay,         \* worker -> execute's delay
    wait,          \* worker -> duration of the backoff timer
    spc,           \* call -> position / result of the Submit or TrySubmit call
    skind,         \* call -> "submit" | "try"
    spolicy,       \* call -> RetryPolicy of its submission
    ssucc,         \* call -> invocation on which its task first succeeds (0: never)
    outcome,       \* call -> how execute ended for its submission
    startedWhen,   \* call -> state of the Manager when the call started
    shpc           \* Shutdown call -> position

\* The store and one ProcessBefore call (BatchProcessor, part_003)
VARIABLES
    createdAt,     \* document (_id) -> createdAt
    cutoff,        \* the cutoff given to ProcessBefore
    batchSize,     \* bp.batchSize
    parentDone,    \* the context given to ProcessBefore is cancelled
    pbpc,          \* position in ProcessBefore
    total,         \* ProcessBefore's total
    lastTime,      \* ProcessBefore's lastTime
    lastID,        \* ProcessBefore's lastID
    firstBatch,    \* ProcessBefore's firstBatch
    batch,         \* ProcessBefore's batch
    pbslot,        \* the Submit call made for the batch
    pberr,         \* the error ProcessBefore returned
    pages,         \* the batches given to Submit so far, with what Submit returned
    fetches        \* fetchBatch calls that returned without an error

sweepVars == <<createdAt, cutoff, batchSize, parentDone, pbpc, total, lastTime, lastID,
               firstBatch, batch, pbslot, pberr, pages, fetches>>

\* The Run invocations on the collection (BatchProcessor.Run, part_002 and
\* tasker/mongo.go), each with its BatchProcessor and Manager
VARIABLES
    claim,         \* document -> its _claim attribute
    rpc,           \* driver -> position in Run
    rtodo,         \* driver -> documents of the page not yet given to Submit
    rtask,         \* driver -> document -> position of its task in the Manager
    rbarrier,      \* driver -> counter of the page's wg
    rresults,      \* driver -> documents whose result is in the results channel
    rwrite,        \* driver -> update models of the bulk write not yet applied
    rerr,          \* driver -> what Run returned
    rfetches,      \* driver -> Find calls that returned a page
    calls          \* document -> invocations of processFn on it

runVars == <<claim, rpc, rtodo, rtask, rbarrier, rresults, rwrite, rerr, rfetches, calls>>

driverVars == <<sweepVars, runVars>>

mgrVars == <<nArg, ctxDone, wgCount, wpc, wsub, attempts, delay, wait, spc, skind,
             spolicy, ssucc, outcome, startedWhen, shpc>>

vars == <<mgrVars, driverVars>>

Subs == 1..MaxSubs
ShutCallers == 1..MaxShutdowns

Min(a, b) == IF a < b THEN a ELSE b
Max(a, b) == IF a > b THEN a ELSE b

\* ------------------------------------------------------- time.Duration
\* Two's-complement wrap-around of signed integer arithmetic.
Wrap(x) == ((x + DurHalf) % DurMod) - DurHalf

\* Conversion of a float to an integer truncates toward zero.
Trunc(a, b) == IF a >= 0 THEN a \div b ELSE -((-a) \div b)

\* RetryPolicy.Jitter is a float64, rng.Float64() a float64 in [0, 1):
\* both are modelled as fractions, <<numerator, denominator>> and r / RngDen.
RngDen == 4
RngDraws == 0..(RngDen - 1)

NoPolicy == [MaxAttempts |-> 0, BaseDelay |-> 0, MaxDelay |-> 0, Jitter |-> <<0, 1>>]

\* execute, lines 70-73
InitDelayAtLeastMs(policy) ==
    IF policy.BaseDelay < Millisecond THEN Millisecond ELSE policy.BaseDelay
InitDelay(policy) ==
    IF policy.BaseDelay = 0 THEN Millisecond ELSE policy.BaseDelay

\* applyJitter, line 107
JitterOff(factor) == factor[1] <= 0 \/ factor[1] > factor[2]

\* The values rng.Float64() may return (times RngDen); it is not called when
\* the jitter is off.
Draws(factor) == IF JitterOff(factor) THEN {0} ELSE RngDraws

\* applyJitter
applyJitterBothWays(d, factor, r) ==
    IF JitterOff(factor)
    THEN d
    ELSE Wrap(d - Trunc(d * factor[1] * r, factor[2] * RngDen))
applyJitter(d, factor, r) ==
    IF JitterOff(factor)
    THEN d
    ELSE Wrap(d + Trunc(d * factor[1] * r, factor[2] * RngDen))

\* execute, lines 98-102
NextDelayNoCap(d, policy) == Wrap(d * 2)
NextDelay(d, policy) ==
    LET d2 == Wrap(d * 2)
    IN IF policy.MaxDelay > 0 /\ d2 > policy.MaxDelay THEN policy.MaxDelay ELSE d2

\* execute, line 85
ExhaustedNever(n, policy) == FALSE
ExhaustedAtZero(n, policy) == n >= policy.MaxAttempts
ExhaustedOffByOne(n, policy) == policy.MaxAttempts > 0 /\ n > policy.MaxAttempts
Exhausted(n, policy) == policy.MaxAttempts > 0 /\ n >= policy.MaxAttempts

\* execute, line 80.  With MaxAttempts > 0 the counter is kept up to
\* MaxAttempts + 1, the first value line 85 would let pass.  With MaxAttempts <= 0
\* line 85 never reads it and it is kept up to MaxK, the largest invocation
\* number a callable of the model tells apart.
NextAttempts(n, policy) ==
    IF policy.MaxAttempts > 0 THEN Min(n + 1, policy.MaxAttempts + 1) ELSE Min(n + 1, MaxK)

\* The callable of a task: fails until its succ-th invocation (never succeeds
\* when succ = 0); n is the number of the invocation that returns.  With
\* succ < 0 the callable waits on the token it is given, as the callables of
\* TestContextCancellation do: it returns ctx.Err() once the token is cancelled.
WaitsOnToken(succ) == succ < 0

TaskFails(n, succ) == succ <= 0 \/ n < succ

\* The callable that worker w runs can return.
CallableCanReturn(w) == WaitsOnToken(ssucc[wsub[w]]) => ctxDone

\* ------------------------------------------------------------------ New
\* New, lines 36-38 and 46-49: the workers started.
NewOffByOne(n) == 1..((IF n < 1 THEN 1 ELSE n) + 1)
NewNoCoerce(n) == 1..n
New(n) == 1..(IF n < 1 THEN 1 ELSE n)

Workers == DOMAIN wpc

\* worker, line 54: the deferred m.wg.Done()
WgDoneMissing(n) == n
WgDone(n) == n - 1

InitManager(n) ==
    /\ nArg = n
    /\ ctxDone = FALSE
    /\ wgCount = Cardinality(New(n))
    /\ wpc = [w \in New(n) |-> "loop"]
    /\ wsub = [w \in New(n) |-> 0]
    /\ attempts = [w \in New(n) |-> 0]
    /\ delay = [w \in New(n) |-> 0]
    /\ wait = [w \in New(n) |-> 0]
    /\ spc = [s \in Subs |-> "new"]
    /\ skind = [s \in Subs |-> "none"]
    /\ spolicy = [s \in Subs |-> NoPolicy]
    /\ ssucc = [s \in Subs |-> 0]
    /\ outcome = [s \in Subs |-> "none"]
    /\ startedWhen = [s \in Subs |-> "none"]
    /\ shpc = [c \in ShutCallers |-> "new"]

\* No ProcessBefore call is made.
SweepIdle ==
    /\ createdAt = <<>>
    /\ cutoff = 0
    /\ batchSize = 0
    /\ parentDone = FALSE
    /\ pbpc = "idle"
    /\ total = 0
    /\ lastTime = 0
    /\ lastID = 0
    /\ firstBatch = TRUE
    /\ batch = <<>>
    /\ pbslot = 0
    /\ pberr = "none"
    /\ pages = <<>>
    /\ fetches = 0

\* No Run invocation is made.
RunIdle ==
    /\ claim = <<>>
    /\ rpc = <<>>
    /\ rtodo = <<>>
    /\ rtask = <<>>
    /\ rbarrier = <<>>
    /\ rresults = <<>>
    /\ rwrite = <<>>
    /\ rerr = <<>>
    /\ rfetches = <<>>
    /\ calls = <<>>

Init == SweepIdle /\ RunIdle /\ \E n \in 0..MaxWorkers : InitManager(n)

ShutdownReturned == \E c \in ShutCallers : shpc[c] = "returned"

\* ------------------------------------------------------ cancellation
\* cancel of m.ctx (New line 39, Shutdown line 137): the Done channel is closed,
\* which wakes the goroutines parked in a select on it and commits them to that
\* case: worker line 57, execute line 92, Submit line 118.
WakeWorkersNever(pcs) == pcs
WakeWorkers(pcs) ==
    [w \in DOMAIN pcs |->
        IF pcs[w] = "parked" THEN "woken"
        ELSE IF pcs[w] = "backoff" THEN "bwoken"
        ELSE pcs[w]]

WakeSubmittersNever(pcs) == pcs
WakeSubmittersTrue(pcs) ==
    [s \in DOMAIN pcs |-> IF pcs[s] = "parked" THEN "true" ELSE pcs[s]]
WakeSubmitters(pcs) ==
    [s \in DOMAIN pcs |-> IF pcs[s] = "parked" THEN "woken" ELSE pcs[s]]

Cancel ==
    /\ ctxDone' = TRUE
    /\ wpc' = IF ctxDone THEN wpc ELSE WakeWorkers(wpc)
    /\ spc' = IF ctxDone THEN spc ELSE WakeSubmitters(spc)

\* The parent context given to New is cancelled.
ParentCancel ==
    /\ ~ctxDone
    /\ Cancel
    /\ UNCHANGED <<nArg, wgCount, wsub, attempts, delay, wait, skind, spolicy, ssucc,
                   outcome, shpc, startedWhen>>

\* --------------------------------------------------------------- hand-off
\* A worker takes submission s from m.tasks and calls execute (lines 59-63, 69-73).
Receive(w, s, policy) ==
    /\ wsub' = [wsub EXCEPT ![w] = s]
    /\ attempts' = [attempts EXCEPT ![w] = 0]
    /\ delay' = [delay EXCEPT ![w] = InitDelay(policy)]

\* Running, Closed (token cancelled), or Closed with a Shutdown that has returned.
ManagerState ==
    IF ShutdownReturned THEN "shutdown" ELSE IF ctxDone THEN "cancelled" ELSE "live"

\* The wait queues of a channel are first in, first out.  Calls are numbered in
\* the order they start, so the first parked sender is the lowest one; parked
\* workers hold no state and are interchangeable, the lowest stands for the first.
FirstParked(pcs, i) ==
    /\ pcs[i] = "parked"
    /\ \A j \in DOMAIN pcs : j < i => pcs[j] # "parked"

\* What a TrySubmit does when no case of its select can proceed (default, line 131).
TrySubmitNoDefault == "parked"
TrySubmitDefault == "busy"

\* Submit / TrySubmit: one pass over the cases of the select.  The call ends
\* "true" (handed off), "closed" (Done case: false) or "busy" (default: false),
\* or it parks on both channels.
SubmitCall(s, kind, policy, succ) ==
    /\ spc[s] = "new"
    /\ IF s = 1 THEN TRUE ELSE spc[s - 1] # "new"
    /\ skind' = [skind EXCEPT ![s] = kind]
    /\ startedWhen' = [startedWhen EXCEPT ![s] = ManagerState]
    /\ \/ \* case <-m.ctx.Done()
          /\ ctxDone
          /\ spc' = [spc EXCEPT ![s] = "closed"]
          /\ UNCHANGED <<wpc, wsub, attempts, delay, spolicy, ssucc>>
       \/ \* case m.tasks <- submission{...}: a worker is parked on the receive
          /\ \E w \in Workers :
                /\ FirstParked(wpc, w)
                /\ wpc' = [wpc EXCEPT ![w] = "check"]
                /\ Receive(w, s, policy)
          /\ spc' = [spc EXCEPT ![s] = "true"]
          /\ spolicy' = [spolicy EXCEPT ![s] = policy]
          /\ ssucc' = [ssucc EXCEPT ![s] = succ]
       \/ \* no case can proceed
          /\ ~ctxDone
          /\ \A w \in Workers : wpc[w] # "parked"
          /\ IF kind = "try"
             THEN /\ spc' = [spc EXCEPT ![s] = TrySubmitDefault]
                  /\ UNCHANGED <<spolicy, ssucc>>
             ELSE /\ spc' = [spc EXCEPT ![s] = "parked"]
                  /\ spolicy' = [spolicy EXCEPT ![s] = policy]
                  /\ ssucc' = [ssucc EXCEPT ![s] = succ]
          /\ UNCHANGED <<wpc, wsub, attempts, delay>>
    /\ UNCHANGED <<nArg, ctxDone, wgCount, wait, outcome, shpc>>

\* A parked Submit woken by the cancellation returns false (lines 118-119).
SubmitWoken(s) ==
    /\ spc[s] = "woken"
    /\ spc' = [spc EXCEPT ![s] = "aborted"]
    /\ spolicy' = [spolicy EXCEPT ![s] = NoPolicy]
    /\ ssucc' = [ssucc EXCEPT ![s] = 0]
    /\ UNCHANGED <<nArg, ctxDone, wgCount, wpc, wsub, attempts, delay, wait, skind,
                   outcome, shpc, startedWhen>>

\* The value a finished call returned.
Returned(s) ==
    IF spc[s] = "true" THEN "true"
    ELSE IF spc[s] \in {"closed", "busy", "aborted"} THEN "false"
    ELSE "none"

\* ----------------------------------------------------------------- worker
\* worker, lines 55-64: one pass over the cases of the select.
WorkerSelect(w) ==
    /\ wpc[w] = "loop"
    /\ \/ \* case <-m.ctx.Done(): return, and the deferred m.wg.Done()
          /\ ctxDone
          /\ wpc' = [wpc EXCEPT ![w] = "exited"]
          /\ wgCount' = WgDone(wgCount)
          /\ UNCHANGED <<spc, wsub, attempts, delay>>
       \/ \* case sub, ok := <-m.tasks: a Submit is parked on the send
          /\ \E s \in Subs :
                /\ FirstParked(spc, s)
                /\ spc' = [spc EXCEPT ![s] = "true"]
                /\ Receive(w, s, spolicy[s])
          /\ wpc' = [wpc EXCEPT ![w] = "check"]
          /\ UNCHANGED wgCount
       \/ \* no case can proceed: park on both channels
          /\ ~ctxDone
          /\ \A s \in Subs : spc[s] # "parked"
          /\ wpc' = [wpc EXCEPT ![w] = "parked"]
          /\ UNCHANGED <<spc, wgCount, wsub, attempts, delay>>
    /\ UNCHANGED <<nArg, ctxDone, wait, skind, spolicy, ssucc, outcome, shpc, startedWhen>>

\* worker, lines 57-58 and 54: a parked worker woken by the cancellation returns.
WorkerWoken(w) ==
    /\ wpc[w] = "woken"
    /\ wpc' = [wpc EXCEPT ![w] = "exited"]
    /\ wgCount' = WgDone(wgCount)
    /\ UNCHANGED <<nArg, ctxDone, wsub, attempts, delay, wait, spc, skind, spolicy, ssucc,
                   outcome, shpc, startedWhen>>

\* ---------------------------------------------------------------- execute
\* execute returns to the worker loop; its locals and the submission are dropped.
ExecuteReturnExits(w, how) ==
    /\ wpc' = [wpc EXCEPT ![w] = "exited"]
    /\ outcome' = [outcome EXCEPT ![wsub[w]] = how]
    /\ spolicy' = [spolicy EXCEPT ![wsub[w]] = NoPolicy]
    /\ ssucc' = [ssucc EXCEPT ![wsub[w]] = 0]
    /\ wsub' = [wsub EXCEPT ![w] = 0]
    /\ attempts' = [attempts EXCEPT ![w] = 0]
    /\ delay' = [delay EXCEPT ![w] = 0]
    /\ wait' = [wait EXCEPT ![w] = 0]
ExecuteReturn(w, how) ==
    /\ wpc' = [wpc EXCEPT ![w] = "loop"]
    /\ outcome' = [outcome EXCEPT ![wsub[w]] = how]
    /\ spolicy' = [spolicy EXCEPT ![wsub[w]] = NoPolicy]
    /\ ssucc' = [ssucc EXCEPT ![wsub[w]] = 0]
    /\ wsub' = [wsub EXCEPT ![w] = 0]
    /\ attempts' = [attempts EXCEPT ![w] = 0]
    /\ delay' = [delay EXCEPT ![w] = 0]
    /\ wait' = [wait EXCEPT ![w] = 0]

\* execute, lines 76-78: the check of m.ctx.Err() before an attempt.
CheckPassesAlways(w) == TRUE
CheckPasses(w) == ~ctxDone

CheckCtx(w) ==
    /\ wpc[w] = "check"
    /\ IF CheckPasses(w)
       THEN /\ wpc' = [wpc EXCEPT ![w] = "enter"]
            /\ UNCHANGED <<outcome, wsub, spolicy, ssucc, attempts, delay, wait, startedWhen>>
       ELSE ExecuteReturn(w, "cancelled")
    /\ UNCHANGED <<nArg, ctxDone, wgCount, spc, skind, shpc, startedWhen>>

\* execute, lines 80-81: attempts++ and the callable is entered.
EnterCallable(w) ==
    /\ wpc[w] = "enter"
    /\ wpc' = [wpc EXCEPT ![w] = "call"]
    /\ attempts' = [attempts EXCEPT ![w] = NextAttempts(@, spolicy[wsub[w]])]
    /\ UNCHANGED <<nArg, ctxDone, wgCount, wsub, delay, wait, spc, skind, spolicy, ssucc,
                   outcome, shpc, startedWhen>>

\* execute, lines 81-96: the callable returns; on a failure with attempts left
\* the backoff timer is started and the select on it is entered.
CallableReturn(w) ==
    /\ wpc[w] = "call"
    /\ CallableCanReturn(w)
    /\ LET s == wsub[w]
           policy == spolicy[s]
       IN IF ~TaskFails(attempts[w], ssucc[s])
          THEN ExecuteReturn(w, "success")
          ELSE IF Exhausted(attempts[w], policy)
          THEN ExecuteReturn(w, "exhausted")
          ELSE \E r \in Draws(policy.Jitter) :
                  IF ctxDone
                  THEN ExecuteReturn(w, "cancelled")
                  ELSE /\ wait' = [wait EXCEPT ![w] = applyJitter(delay[w], policy.Jitter, r)]
                       /\ wpc' = [wpc EXCEPT ![w] = "backoff"]
                       /\ UNCHANGED <<outcome, wsub, spolicy, ssucc, attempts, delay, startedWhen>>
    /\ UNCHANGED <<nArg, ctxDone, wgCount, spc, skind, shpc, startedWhen>>

\* execute, lines 95-102: the timer fires, the delay is doubled and capped.
TimerFireIntoCallable(w) ==
    /\ wpc[w] = "backoff"
    /\ wpc' = [wpc EXCEPT ![w] = "call"]
    /\ delay' = [delay EXCEPT ![w] = NextDelay(@, spolicy[wsub[w]])]
    /\ attempts' = [attempts EXCEPT ![w] = NextAttempts(@, spolicy[wsub[w]])]
    /\ UNCHANGED <<nArg, ctxDone, wgCount, wsub, wait, spc, skind, spolicy, ssucc,
                   outcome, shpc, startedWhen>>
TimerFire(w) ==
    /\ wpc[w] = "backoff"
    /\ wpc' = [wpc EXCEPT ![w] = "check"]
    /\ delay' = [delay EXCEPT ![w] = NextDelay(@, spolicy[wsub[w]])]
    /\ UNCHANGED <<nArg, ctxDone, wgCount, wsub, attempts, wait, spc, skind, spolicy, ssucc,
                   outcome, shpc, startedWhen>>

\* execute, lines 92-94: the backoff wait is aborted by the cancellation.
BackoffAbortRetries(w) ==
    /\ wpc[w] = "bwoken"
    /\ wpc' = [wpc EXCEPT ![w] = "enter"]
    /\ UNCHANGED <<nArg, ctxDone, wgCount, wsub, attempts, delay, wait, spc, skind, spolicy,
                   ssucc, outcome, shpc, startedWhen>>
BackoffAbort(w) ==
    /\ wpc[w] = "bwoken"
    /\ ExecuteReturn(w, "cancelled")
    /\ UNCHANGED <<nArg, ctxDone, wgCount, spc, skind, shpc, startedWhen>>

\* --------------------------------------------------------------- Shutdown
\* Shutdown, line 137: m.cancel()
ShutdownCall(c) ==
    /\ shpc[c] = "new"
    /\ IF c = 1 THEN TRUE ELSE shpc[c - 1] # "new"
    /\ shpc' = [shpc EXCEPT ![c] = "wait"]
    /\ Cancel
    /\ UNCHANGED <<nArg, wgCount, wsub, attempts, delay, wait, skind, spolicy, ssucc,
                   outcome, startedWhen>>

\* Shutdown, line 138: m.wg.Wait() returns when the counter is zero.
WaitDoneNoWait == TRUE
WaitDone == wgCount = 0

ShutdownReturn(c) ==
    /\ shpc[c] = "wait"
    /\ WaitDone
    /\ shpc' = [shpc EXCEPT ![c] = "returned"]
    /\ UNCHANGED <<nArg, ctxDone, wgCount, wpc, wsub, attempts, delay, wait, spc, skind,
                   spolicy, ssucc, outcome, startedWhen>>

\* ------------------------------------------------------------------- Wait
\* Wait, line 142: m.wg.Wait(), without a cancellation.  The callers of Wait and
\* of Shutdown are numbered together, in the order their calls start.
WaitCall(c) ==
    /\ shpc[c] = "new"
    /\ IF c = 1 THEN TRUE ELSE shpc[c - 1] # "new"
    /\ shpc' = [shpc EXCEPT ![c] = "wwait"]
    /\ UNCHANGED <<nArg, ctxDone, wgCount, wpc, wsub, attempts, delay, wait, spc, skind,
                   spolicy, ssucc, outcome, startedWhen>>

WaitReturn(c) ==
    /\ shpc[c] = "wwait"
    /\ WaitDone
    /\ shpc' = [shpc EXCEPT ![c] = "wreturned"]
    /\ UNCHANGED <<nArg, ctxDone, wgCount, wpc, wsub, attempts, delay, wait, spc, skind,
                   spolicy, ssucc, outcome, startedWhen>>

\* ----------------------------------------------------------- specification
\* Policies of the scheduling scenarios: 1 ms delays, no jitter.
SchedPolicy(k) ==
    [MaxAttempts |-> k, BaseDelay |-> 0, MaxDelay |-> Millisecond, Jitter |-> <<0, 1>>]

\* Tasks of the scheduling scenarios, <<MaxAttempts, succ>>: one that succeeds at
\* once, one that fails until its attempts run out, one that fails for ever.
SchedTasks == {<<1, 1>>, <<2, 0>>, <<0, 0>>}

Next ==
    \/ \E s \in Subs, kind \in {"submit", "try"}, t \in SchedTasks :
          SubmitCall(s, kind, SchedPolicy(t[1]), t[2]) /\ UNCHANGED driverVars
    \/ \E s \in Subs : SubmitWoken(s) /\ UNCHANGED driverVars
    \/ \E w \in Workers : WorkerSelect(w) /\ UNCHANGED driverVars
    \/ \E w \in Workers : WorkerWoken(w) /\ UNCHANGED driverVars
    \/ \E w \in Workers : CheckCtx(w) /\ UNCHANGED driverVars
    \/ \E w \in Workers : EnterCallable(w) /\ UNCHANGED driverVars
    \/ \E w \in Workers : CallableReturn(w) /\ UNCHANGED driverVars
    \/ \E w \in Workers : TimerFire(w) /\ UNCHANGED driverVars
    \/ \E w \in Workers : BackoffAbort(w) /\ UNCHANGED driverVars
    \/ ParentCancel /\ UNCHANGED driverVars
    \/ \E c \in ShutCallers : ShutdownCall(c) /\ UNCHANGED driverVars
    \/ \E c \in ShutCallers : ShutdownReturn(c) /\ UNCHANGED driverVars

Spec == Init /\ [][Next]_vars

\* ---------------------------------------------------------- retry chains
\* One worker and one Submit, over a range of retry policies and tasks.
BaseDelays == {0, Millisecond \div 2, Millisecond, 3 * Millisecond, DurHalf \div 2 + 1}
MaxDelays == {0, 2 * Millisecond, 5 * Millisecond}
JitterFactors == {<<0, 1>>, <<1, 2>>, <<1, 1>>, <<3, 2>>}

RetryPolicies ==
    [MaxAttempts : 0..(MaxK + 1), BaseDelay : BaseDelays, MaxDelay : MaxDelays,
     Jitter : JitterFactors]

InitRetry == SweepIdle /\ RunIdle /\ InitManager(1)

NextRetry ==
    \/ \E policy \in RetryPolicies, succ \in 0..MaxK :
          SubmitCall(1, "submit", policy, succ) /\ UNCHANGED driverVars
    \/ SubmitWoken(1) /\ UNCHANGED driverVars
    \/ \E w \in Workers : WorkerSelect(w) /\ UNCHANGED driverVars
    \/ \E w \in Workers : WorkerWoken(w) /\ UNCHANGED driverVars
    \/ \E w \in Workers : CheckCtx(w) /\ UNCHANGED driverVars
    \/ \E w \in Workers : EnterCallable(w) /\ UNCHANGED driverVars
    \/ \E w \in Workers : CallableReturn(w) /\ UNCHANGED driverVars
    \/ \E w \in Workers : TimerFire(w) /\ UNCHANGED driverVars
    \/ \E w \in Workers : BackoffAbort(w) /\ UNCHANGED driverVars
    \/ ParentCancel /\ UNCHANGED driverVars

SpecRetry == InitRetry /\ [][NextRetry]_vars

\* ---------------------------------------------------------------- fairness
\* The Go scheduler runs every runnable goroutine, a started timer fires, and the
\* callables of the model return: each worker, each woken Submit and each
\* Shutdown whose wait is over takes its next step.  Nothing obliges a client to
\* call Submit, TrySubmit or Shutdown, or the parent to cancel.
WorkerNext(w) ==
    /\ w \in Workers
    /\ \/ WorkerSelect(w)
       \/ WorkerWoken(w)
       \/ CheckCtx(w)
       \/ EnterCallable(w)
       \/ CallableReturn(w)
       \/ TimerFire(w)
       \/ BackoffAbort(w)
    /\ UNCHANGED driverVars

Fairness ==
    /\ \A w \in 1..(MaxWorkers + 1) : WF_vars(WorkerNext(w))
    /\ \A s \in Subs : WF_vars(SubmitWoken(s) /\ UNCHANGED driverVars)
    /\ \A c \in ShutCallers : WF_vars(ShutdownReturn(c) /\ UNCHANGED driverVars)

FairSpec == Spec /\ Fairness

FairRetry == SpecRetry /\ Fairness

\* ------------------------------------------------------ cancellation, Wait
\* TestContextCancellation: tasks whose callables wait on the token (one
\* attempt, or unbounded attempts), a task that fails for ever, then a
\* cancellation by the parent or by Shutdown, and callers of Wait.
WaitTasks == {<<1, -1>>, <<0, -1>>, <<0, 0>>}

NextWait ==
    \/ \E s \in Subs, t \in WaitTasks :
          SubmitCall(s, "submit", SchedPolicy(t[1]), t[2]) /\ UNCHANGED driverVars
    \/ \E s \in Subs : SubmitWoken(s) /\ UNCHANGED driverVars
    \/ \E w \in Workers : WorkerSelect(w) /\ UNCHANGED driverVars
    \/ \E w \in Workers : WorkerWoken(w) /\ UNCHANGED driverVars
    \/ \E w \in Workers : CheckCtx(w) /\ UNCHANGED driverVars
    \/ \E w \in Workers : EnterCallable(w) /\ UNCHANGED driverVars
    \/ \E w \in Workers : CallableReturn(w) /\ UNCHANGED driverVars
    \/ \E w \in Workers : TimerFire(w) /\ UNCHANGED driverVars
    \/ \E w \in Workers : BackoffAbort(w) /\ UNCHANGED driverVars
    \/ ParentCancel /\ UNCHANGED driverVars
    \/ \E c \in ShutCallers : ShutdownCall(c) /\ UNCHANGED driverVars
    \/ \E c \in ShutCallers : ShutdownReturn(c) /\ UNCHANGED driverVars
    \/ \E c \in ShutCallers : WaitCall(c) /\ UNCHANGED driverVars
    \/ \E c \in ShutCallers : WaitReturn(c) /\ UNCHANGED driverVars

SpecWait == Init /\ [][NextWait]_vars

FairWait ==
    /\ SpecWait
    /\ Fairness
    /\ \A c \in ShutCallers : WF_vars(WaitReturn(c) /\ UNCHANGED driverVars)

\* ------------------------------------------------- ProcessBefore (Mode A)
\* NewBatchProcessor, lines 28-37
DefaultBatchSize == 100
NewBatchProcessor(b) == IF b < 1 THEN DefaultBatchSize ELSE b

Docs == DOMAIN createdAt

\* ProcessBefore, lines 69-71: the policy of the task of a page
PagePolicyRetry == [MaxAttempts |-> 2, BaseDelay |-> 0, MaxDelay |-> 0, Jitter |-> <<0, 1>>]
PagePolicy == [MaxAttempts |-> 1, BaseDelay |-> 0, MaxDelay |-> 0, Jitter |-> <<0, 1>>]

\* fetchBatch, line 95: the filter of the first page
FirstFilterAll(d) == TRUE
FirstFilter(d) == createdAt[d] < cutoff

\* fetchBatch, lines 98-106: the filter of the later pages
CursorFilterNoTie(d) == createdAt[d] < lastTime
CursorFilterInclusive(d) == createdAt[d] <= lastTime
CursorFilter(d) ==
    \/ createdAt[d] < lastTime
    \/ createdAt[d] = lastTime /\ d < lastID

\* fetchBatch, line 110: d comes before e in the sort by createdAt descending,
\* then _id descending
BeforeIdAscending(d, e) ==
    createdAt[d] > createdAt[e] \/ (createdAt[d] = createdAt[e] /\ d < e)
Before(d, e) ==
    createdAt[d] > createdAt[e] \/ (createdAt[d] = createdAt[e] /\ d > e)

SortDesc(S) ==
    [i \in 1..Cardinality(S) |->
        CHOOSE d \in S : Cardinality({e \in S : Before(e, d)}) = i - 1]

\* fetchBatch, line 111: SetLimit(bp.batchSize)
Limit(seq) == SubSeq(seq, 1, Min(Len(seq), batchSize))

\* fetchBatch: the documents the query returns
fetchBatch ==
    Limit(SortDesc({d \in Docs : IF firstBatch THEN FirstFilter(d) ELSE CursorFilter(d)}))

\* ProcessBefore, lines 73-76: the count after the Submit of a page
CountPageAlways(n, page, submitted) == n + Len(page)
CountPage(n, page, submitted) == IF submitted THEN n + Len(page) ELSE n

\* A Submit call of the model whose submission has ended: ProcessBefore makes
\* any number of calls, and the record of an ended one is used again.
Finished(s) ==
    \/ Returned(s) = "false"
    \/ Returned(s) = "true" /\ outcome[s] # "none"

Reuse(f, fresh) == [s \in DOMAIN f |-> IF Finished(s) THEN fresh ELSE f[s]]

\* A static collection, a cutoff, a batch size, a Manager with one worker, and
\* a ProcessBefore call at the top of its loop.
InitSweep ==
    /\ InitManager(1)
    /\ RunIdle
    /\ createdAt \in [1..MaxDocs -> 1..MaxTime]
    /\ cutoff \in 1..(MaxTime + 1)
    /\ \E b \in 0..MaxPage : batchSize = NewBatchProcessor(b)
    /\ parentDone = FALSE
    /\ pbpc = "fetch"
    /\ total = 0
    /\ lastTime = 0
    /\ lastID = 0
    /\ firstBatch = TRUE
    /\ batch = <<>>
    /\ pbslot = 0
    /\ pberr = "none"
    /\ pages = <<>>
    /\ fetches = 0

\* ProcessBefore returns (total, err)
PBReturnNil(err) ==
    /\ pbpc' = "returned"
    /\ pberr' = "nil"
PBReturn(err) ==
    /\ pbpc' = "returned"
    /\ pberr' = err

\* ProcessBefore, lines 54-65: fetchBatch and what follows it up to the Submit.
\* Find fails on a cancelled context and may fail with an error of the store.
PBFetch ==
    /\ pbpc = "fetch"
    /\ spc' = Reuse(spc, "new")
    /\ skind' = Reuse(skind, "none")
    /\ outcome' = Reuse(outcome, "none")
    /\ startedWhen' = Reuse(startedWhen, "none")
    /\ \/ /\ parentDone
          /\ PBReturn("canceled")
          /\ UNCHANGED <<batch, firstBatch, lastTime, lastID, fetches>>
       \/ /\ ~parentDone
          /\ PBReturn("store")
          /\ UNCHANGED <<batch, firstBatch, lastTime, lastID, fetches>>
       \/ /\ ~parentDone
          /\ batch' = fetchBatch
          /\ fetches' = fetches + 1
          /\ IF Len(batch') = 0
             THEN /\ PBReturn("nil")
                  /\ UNCHANGED <<firstBatch, lastTime, lastID>>
             ELSE /\ firstBatch' = FALSE
                  /\ lastTime' = createdAt[batch'[Len(batch')]]
                  /\ lastID' = batch'[Len(batch')]
                  /\ pbpc' = "submit"
                  /\ UNCHANGED pberr
    /\ UNCHANGED <<nArg, ctxDone, wgCount, wpc, wsub, attempts, delay, wait, spolicy,
                   ssucc, shpc>>
    /\ UNCHANGED <<createdAt, cutoff, batchSize, parentDone, total, pbslot, pages>>
    /\ UNCHANGED runVars

\* ProcessBefore, line 69: the Submit call starts; the callable of the page
\* succeeds (1) or returns an error (0).
PBSubmit ==
    /\ pbpc = "submit"
    /\ \E s \in Subs, succ \in {0, 1} :
          /\ SubmitCall(s, "submit", PagePolicy, succ)
          /\ pbslot' = s
    /\ pbpc' = "insubmit"
    /\ UNCHANGED <<createdAt, cutoff, batchSize, parentDone, total, lastTime, lastID,
                   firstBatch, batch, pberr, pages, fetches>>
    /\ UNCHANGED runVars

\* ProcessBefore, lines 69-80: the Submit call has returned.
PBSubmitReturn ==
    /\ pbpc = "insubmit"
    /\ Returned(pbslot) # "none"
    /\ LET submitted == Returned(pbslot) = "true"
       IN /\ pages' = Append(pages, [docs |-> batch, ok |-> submitted])
          /\ total' = CountPage(total, batch, submitted)
          /\ IF ~submitted \/ Len(batch) < batchSize
             THEN PBReturn("nil")
             ELSE pbpc' = "fetch" /\ UNCHANGED pberr
    /\ UNCHANGED mgrVars
    /\ UNCHANGED <<createdAt, cutoff, batchSize, parentDone, lastTime, lastID,
                   firstBatch, batch, pbslot, fetches>>
    /\ UNCHANGED runVars

\* The context given to ProcessBefore is cancelled, and with it the token of
\* the Manager, which derives from it.
SweepCancel ==
    /\ ~parentDone
    /\ parentDone' = TRUE
    /\ Cancel
    /\ UNCHANGED <<nArg, wgCount, wsub, attempts, delay, wait, skind, spolicy, ssucc,
                   outcome, shpc, startedWhen>>
    /\ UNCHANGED <<createdAt, cutoff, batchSize, pbpc, total, lastTime, lastID,
                   firstBatch, batch, pbslot, pberr, pages, fetches>>
    /\ UNCHANGED runVars

NextSweep ==
    \/ PBFetch
    \/ PBSubmit
    \/ PBSubmitReturn
    \/ SweepCancel
    \/ ParentCancel /\ UNCHANGED driverVars
    \/ ShutdownCall(1) /\ UNCHANGED driverVars
    \/ ShutdownReturn(1) /\ UNCHANGED driverVars
    \/ \E s \in Subs : SubmitWoken(s) /\ UNCHANGED driverVars
    \/ \E w \in Workers : WorkerSelect(w) /\ UNCHANGED driverVars
    \/ \E w \in Workers : WorkerWoken(w) /\ UNCHANGED driverVars
    \/ \E w \in Workers : CheckCtx(w) /\ UNCHANGED driverVars
    \/ \E w \in Workers : EnterCallable(w) /\ UNCHANGED driverVars
    \/ \E w \in Workers : CallableReturn(w) /\ UNCHANGED driverVars

SpecSweep == InitSweep /\ [][NextSweep]_vars

\* The goroutine of ProcessBefore and the worker are scheduled, the store
\* answers and the callables of the pages return.  Nothing obliges the parent
\* to cancel or a client to call Shutdown.
FairSweep ==
    /\ SpecSweep
    /\ WF_vars(PBFetch)
    /\ WF_vars(PBSubmit)
    /\ WF_vars(PBSubmitReturn)
    /\ Fairness

\* ----------------------------------------------------------- Run (Mode B)
\* Several Run invocations work on one collection, each on its own
\* BatchProcessor and Manager, under one parent context (parentDone).  Every
\* task Run submits has one attempt and a callable that returns nil, so of the
\* Manager of a driver only the path of such a task is kept: Submit hands it to
\* an idle worker or returns false on the cancelled token (part_005 lines
\* 116-123), execute checks the token (lines 76-78) and calls it (line 81).

\* The _claim attribute does not exist / was set before the Run invocations.
Absent == 0
Earlier == MaxDrivers + 1

Drivers == DOMAIN rpc

\* BatchProcessor.createdAtCutoff is nil: no cutoff is configured.  The
\* createdAt values of the model are >= 1.
NoCutoff == 0

\* Run, lines 61-64 (mongo.go line 54): the filter of Find
UnclaimedNone == {}
UnclaimedAll == DOMAIN claim
UnclaimedAnyTime == {d \in DOMAIN claim : claim[d] = Absent}
Unclaimed ==
    {d \in DOMAIN claim : claim[d] = Absent /\ (cutoff = NoCutoff \/ createdAt[d] < cutoff)}

\* Run, line 93: the result of processFn, which tells the drivers apart as the
\* instance number does in TestBatchProcessorConcurrentInstances
ResultOf(k, d) == k

\* Run, lines 104-111: one update of the bulk write, "set _claim where _id is d
\* and _claim does not exist"
ApplyUpdateNever(c, d, v) == c
ApplyUpdateNoFilter(c, d, v) == [c EXCEPT ![d] = v]
ApplyUpdate(c, d, v) == IF c[d] = Absent THEN [c EXCEPT ![d] = v] ELSE c

\* The tasks of driver k that a worker of its Manager holds
Active(k) == {d \in DOMAIN rtask[k] : rtask[k][d] \in {"queued", "enter"}}

Lowest(S) == CHOOSE d \in S : \A e \in S : d <= e

\* The Run invocations at their start, on documents with the createdAt
\* values times and BatchProcessors with the cutoff c
InitRunWith(times, c) ==
    /\ \E n \in 1..MaxWorkers : InitManager(n)
    /\ createdAt = times
    /\ cutoff = c
    /\ \E b \in 0..MaxPage : batchSize = NewBatchProcessor(b)
    /\ parentDone = FALSE
    /\ pbpc = "idle"
    /\ total = 0
    /\ lastTime = 0
    /\ lastID = 0
    /\ firstBatch = TRUE
    /\ batch = <<>>
    /\ pbslot = 0
    /\ pberr = "none"
    /\ pages = <<>>
    /\ fetches = 0
    /\ claim \in [1..MaxDocs -> {Absent, Earlier}]
    /\ rpc = [k \in 1..MaxDrivers |-> "sleep"]
    /\ rtodo = [k \in 1..MaxDrivers |-> {}]
    /\ rtask = [k \in 1..MaxDrivers |-> [d \in 1..MaxDocs |-> "none"]]
    /\ rbarrier = [k \in 1..MaxDrivers |-> 0]
    /\ rresults = [k \in 1..MaxDrivers |-> {}]
    /\ rwrite = [k \in 1..MaxDrivers |-> {}]
    /\ rerr = [k \in 1..MaxDrivers |-> "none"]
    /\ rfetches = [k \in 1..MaxDrivers |-> 0]
    /\ calls = [d \in 1..MaxDocs |-> 0]

\* NewBatchProcessor: no cutoff
InitRun == InitRunWith([d \in 1..MaxDocs |-> 1], NoCutoff)

\* NewBatchProcessor(...).WithCreatedAtCutoff(c), lines 40-43
InitRunCutoff ==
    \E times \in [1..MaxDocs -> 1..MaxTime], c \in 1..(MaxTime + 1) : InitRunWith(times, c)

\* Run returns err
RunReturnContinues(k, err) ==
    /\ rpc' = [rpc EXCEPT ![k] = "top"]
    /\ rerr' = [rerr EXCEPT ![k] = err]
RunReturn(k, err) ==
    /\ rpc' = [rpc EXCEPT ![k] = "returned"]
    /\ rerr' = [rerr EXCEPT ![k] = err]

\* Run, lines 51-52: the startup sleep ends
RunSleep(k) ==
    /\ rpc[k] = "sleep"
    /\ rpc' = [rpc EXCEPT ![k] = "top"]
    /\ UNCHANGED <<claim, rtodo, rtask, rbarrier, rresults, rwrite, rerr, calls>>
    /\ UNCHANGED <<mgrVars, sweepVars>>
    /\ UNCHANGED rfetches

\* Run, lines 55-59: the check of the token at the top of the loop
RunTop(k) ==
    /\ rpc[k] = "top"
    /\ IF parentDone
       THEN RunReturn(k, "canceled")
       ELSE rpc' = [rpc EXCEPT ![k] = "find"] /\ UNCHANGED rerr
    /\ UNCHANGED <<claim, rtodo, rtask, rbarrier, rresults, rwrite, calls>>
    /\ UNCHANGED <<mgrVars, sweepVars>>
    /\ UNCHANGED rfetches

\* Run, lines 61-86: Find and cursor.All.  Find fails on a cancelled context
\* and may fail with an error of the store; it has no sort, so which
\* documents a limited page holds is up to the store.
RunFind(k) ==
    /\ rpc[k] = "find"
    /\ \/ /\ parentDone
          /\ RunReturn(k, "canceled")
          /\ UNCHANGED <<rtodo, rtask, rbarrier, rresults, rfetches>>
       \/ /\ ~parentDone
          /\ RunReturn(k, "store")
          /\ UNCHANGED <<rtodo, rtask, rbarrier, rresults, rfetches>>
       \/ /\ ~parentDone
          /\ rfetches' = [rfetches EXCEPT ![k] = @ + 1]
          /\ \E docs \in SUBSET Unclaimed :
                /\ Cardinality(docs) = Min(batchSize, Cardinality(Unclaimed))
                /\ IF docs = {}
                   THEN /\ RunReturn(k, "nil")
                        /\ UNCHANGED <<rtodo, rtask, rbarrier, rresults>>
                   ELSE /\ rtodo' = [rtodo EXCEPT ![k] = docs]
                        /\ rtask' = [rtask EXCEPT ![k] = [d \in DOMAIN claim |-> "none"]]
                        /\ rbarrier' = [rbarrier EXCEPT ![k] = 0]
                        /\ rresults' = [rresults EXCEPT ![k] = {}]
                        /\ rpc' = [rpc EXCEPT ![k] = "submit"]
                        /\ UNCHANGED rerr
    /\ UNCHANGED <<claim, rwrite, calls>>
    /\ UNCHANGED <<mgrVars, sweepVars>>

\* Run, lines 88-97: wg.Add(1) and the Submit of the task of the next document.
\* Submit returns true when an idle worker has taken the task, false on the
\* cancelled token; Run does not look at what it returns.  After the last
\* document Run is at wg.Wait().
RunSubmit(k) ==
    /\ rpc[k] = "submit"
    /\ LET d == Lowest(rtodo[k])
       IN /\ rbarrier' = [rbarrier EXCEPT ![k] = @ + 1]
          /\ \/ /\ ~parentDone
                /\ Cardinality(Active(k)) < Cardinality(Workers)
                /\ rtask' = [rtask EXCEPT ![k][d] = "queued"]
             \/ /\ parentDone
                /\ rtask' = [rtask EXCEPT ![k][d] = "rejected"]
          /\ rtodo' = [rtodo EXCEPT ![k] = @ \ {d}]
          /\ rpc' = [rpc EXCEPT ![k] = IF rtodo[k] = {d} THEN "wait" ELSE "submit"]
    /\ UNCHANGED <<claim, rresults, rwrite, rerr, calls>>
    /\ UNCHANGED <<mgrVars, sweepVars>>
    /\ UNCHANGED rfetches

\* execute, lines 76-78, for the task of document d of driver k
TaskCheck(k, d) ==
    /\ rtask[k][d] = "queued"
    /\ rtask' = [rtask EXCEPT ![k][d] = IF parentDone THEN "dropped" ELSE "enter"]
    /\ UNCHANGED <<claim, rpc, rtodo, rbarrier, rresults, rwrite, rerr, calls>>
    /\ UNCHANGED <<mgrVars, sweepVars>>
    /\ UNCHANGED rfetches

\* Run, lines 91-96: the callable of the task: processFn, the send of the
\* result, and the deferred wg.Done()
TaskRun(k, d) ==
    /\ rtask[k][d] = "enter"
    /\ rtask' = [rtask EXCEPT ![k][d] = "done"]
    /\ calls' = [calls EXCEPT ![d] = @ + 1]
    /\ rresults' = [rresults EXCEPT ![k] = @ \cup {d}]
    /\ rbarrier' = [rbarrier EXCEPT ![k] = @ - 1]
    /\ UNCHANGED <<claim, rpc, rtodo, rwrite, rerr>>
    /\ UNCHANGED <<mgrVars, sweepVars>>
    /\ UNCHANGED rfetches

\* Run, lines 99-113: wg.Wait() returns, the results are turned into the
\* update models of the bulk write
RunWaitNoBarrier(k) ==
    /\ rpc[k] = "wait"
    /\ rwrite' = [rwrite EXCEPT ![k] = rresults[k]]
    /\ rpc' = [rpc EXCEPT ![k] = "write"]
    /\ UNCHANGED <<claim, rtodo, rtask, rbarrier, rresults, rerr, calls>>
    /\ UNCHANGED <<mgrVars, sweepVars>>
    /\ UNCHANGED rfetches
RunWaitWritesPage(k) ==
    /\ rpc[k] = "wait"
    /\ rwrite' = [rwrite EXCEPT ![k] = {d \in DOMAIN rtask[k] : rtask[k][d] # "none"}]
    /\ rpc' = [rpc EXCEPT ![k] = "write"]
    /\ UNCHANGED <<claim, rtodo, rtask, rbarrier, rresults, rerr, calls>>
    /\ UNCHANGED <<mgrVars, sweepVars>>
    /\ UNCHANGED rfetches
RunWait(k) ==
    /\ rpc[k] = "wait"
    /\ rbarrier[k] = 0
    /\ rwrite' = [rwrite EXCEPT ![k] = rresults[k]]
    /\ rpc' = [rpc EXCEPT ![k] = "write"]
    /\ UNCHANGED <<claim, rtodo, rtask, rbarrier, rresults, rerr, calls>>
    /\ UNCHANGED <<mgrVars, sweepVars>>
    /\ UNCHANGED rfetches

\* Run, lines 115-118: the unordered bulk write.  The store applies the updates
\* one by one, in any order; the call fails on a cancelled context and may
\* fail with an error of the store, with some updates applied and some not.
RunWrite(k) ==
    /\ rpc[k] = "write"
    /\ \/ /\ parentDone
          /\ RunReturn(k, "canceled")
          /\ UNCHANGED <<claim, rwrite>>
       \/ /\ ~parentDone
          /\ RunReturn(k, "store")
          /\ UNCHANGED <<claim, rwrite>>
       \/ /\ \E d \in rwrite[k] :
                /\ claim' = ApplyUpdate(claim, d, ResultOf(k, d))
                /\ rwrite' = [rwrite EXCEPT ![k] = @ \ {d}]
          /\ UNCHANGED <<rpc, rerr>>
       \/ /\ rwrite[k] = {}
          /\ rpc' = [rpc EXCEPT ![k] = "top"]
          /\ UNCHANGED <<claim, rwrite, rerr>>
    /\ UNCHANGED <<rtodo, rtask, rbarrier, rresults, calls>>
    /\ UNCHANGED <<mgrVars, sweepVars>>
    /\ UNCHANGED rfetches

\* The parent context of the drivers and of their Managers is cancelled.
RunCancel ==
    /\ ~parentDone
    /\ parentDone' = TRUE
    /\ UNCHANGED <<createdAt, cutoff, batchSize, pbpc, total, lastTime, lastID,
                   firstBatch, batch, pbslot, pberr, pages, fetches>>
    /\ UNCHANGED <<mgrVars, runVars>>

NextRun ==
    \/ \E k \in Drivers : RunSleep(k)
    \/ \E k \in Drivers : RunTop(k)
    \/ \E k \in Drivers : RunFind(k)
    \/ \E k \in Drivers : RunSubmit(k)
    \/ \E k \in Drivers, d \in DOMAIN claim : TaskCheck(k, d)
    \/ \E k \in Drivers, d \in DOMAIN claim : TaskRun(k, d)
    \/ \E k \in Drivers : RunWait(k)
    \/ \E k \in Drivers : RunWrite(k)
    \/ RunCancel

SpecRun == InitRun /\ [][NextRun]_vars

SpecRunCutoff == InitRunCutoff /\ [][NextRun]_vars

\* The goroutine of every Run invocation and the workers of every Manager are
\* scheduled, and the store answers.  Nothing obliges the parent to cancel.
DriverNext(k) ==
    \/ RunSleep(k)
    \/ RunTop(k)
    \/ RunFind(k)
    \/ RunSubmit(k)
    \/ RunWait(k)
    \/ RunWrite(k)
    \/ \E d \in DOMAIN claim : TaskCheck(k, d)
    \/ \E d \in DOMAIN claim : TaskRun(k, d)

FairRun == SpecRun /\ \A k \in 1..(MaxDrivers + 1) : WF_vars(k \in Drivers /\ DriverNext(k))

\* ------------------------------------------------------ either driver mode
\* An invocation of the driver is a ProcessBefore sweep or a set of Run
\* invocations.
NextDrivers ==
    \/ pbpc # "idle" /\ NextSweep
    \/ pbpc = "idle" /\ NextRun

SpecDrivers == (InitSweep \/ InitRun) /\ [][NextDrivers]_vars

\* ------------------------------------------------------------------ claims

Executing == {w \in Workers : wpc[w] = "call"}

\* C1: for every n given to New (n < 1 counts as 1) and every interleaving of
\* Submit and TrySubmit calls, the number of callables executing at the same
\* instant never exceeds the worker count.
C1_ConcurrencyLimit == Cardinality(Executing) <= (IF nArg < 1 THEN 1 ELSE nArg)

C1_Witness == nArg >= 2 /\ Cardinality(Executing) = nArg

\* The number of invocations the claim C2 gives for MaxAttempts = k and a task
\* that first succeeds on its j-th invocation (j = 0: never).
ExpectedCalls(k, j) == IF j = 0 \/ j > k THEN k ELSE j

\* C2: with MaxAttempts = K >= 1 and no cancellation, the callable of a task
\* that always fails is invoked exactly K times and the callable of a task that
\* first succeeds on its j-th invocation (j <= K) exactly j times: execute
\* returns from the invocation with that number and from no earlier one.
C2_ExactAttempts ==
    [][\A w \in Workers :
          (/\ wpc[w] = "call"
           /\ wpc'[w] # "call"
           /\ ~ctxDone
           /\ spolicy[wsub[w]].MaxAttempts >= 1)
          => (wpc'[w] = "loop"
                <=> attempts[w] = ExpectedCalls(spolicy[wsub[w]].MaxAttempts, ssucc[wsub[w]]))]_vars

\* The last invocation of a task that always fails, after a retry.
C2_Witness ==
    \E w \in Workers :
        /\ wpc[w] = "call"
        /\ ~ctxDone
        /\ ssucc[wsub[w]] = 0
        /\ spolicy[wsub[w]].MaxAttempts >= 2
        /\ attempts[w] = spolicy[wsub[w]].MaxAttempts

Holders(s) == {w \in Workers : wsub[w] = s}

\* C3: after Shutdown has returned no callable is entered any more (every worker
\* has terminated), and every Submit and TrySubmit that starts later returns
\* false and its task is never handed to a worker.
C3_AfterShutdown ==
    /\ [](ShutdownReturned => \A w \in Workers : wpc[w] = "exited")
    /\ [](\A s \in Subs :
            startedWhen[s] = "shutdown"
            => Returned(s) = "false" /\ Holders(s) = {} /\ outcome[s] = "none")
    /\ [][ShutdownReturned => \A w \in Workers : wpc'[w] = "call" => wpc[w] = "call"]_vars

C3_Witness ==
    \E s, s2 \in Subs :
        /\ startedWhen[s] = "shutdown"
        /\ Returned(s) = "false"
        /\ outcome[s2] = "success"

\* C4 as stated: once the token is cancelled no worker enters a callable.
C4_NoEntryWhenClosed ==
    [][\A w \in Workers : (wpc[w] # "call" /\ wpc'[w] = "call") => ~ctxDone]_vars

\* C4 as amended: once the token is cancelled no worker passes the check at the
\* top of execute's loop, neither for the first attempt of a submission nor for
\* a further attempt of a retrying task; a callable is entered after the
\* cancellation only by a worker that had passed the check before it.
C4_NoCheckPassedWhenClosed ==
    [][\A w \in Workers : (wpc[w] # "enter" /\ wpc'[w] = "enter") => ~ctxDone]_vars

\* A retrying task about to check the cancelled token before its next attempt.
C4_Witness ==
    \E w \in Workers : ctxDone /\ wpc[w] = "check" /\ attempts[w] >= 1

\* C5: a Submit or TrySubmit call that starts after the token is cancelled
\* returns false (it neither parks nor hands its submission off), also while
\* workers have not yet left their loop.
C5_RejectedWhenClosed ==
    \A s \in Subs :
        startedWhen[s] \in {"cancelled", "shutdown"}
        => Returned(s) = "false" /\ Holders(s) = {}

C5_Witness ==
    \E s \in Subs, w \in Workers :
        /\ startedWhen[s] = "cancelled"
        /\ Returned(s) = "false"
        /\ wpc[w] = "woken"

Accepted(s) == spc[s] = "true"

\* C6 as stated: every accepted submission reaches a terminal outcome, for
\* every retry policy.
C6_AlwaysTerminal ==
    \A s \in Subs : Accepted(s) ~> outcome[s] # "none"

\* A submission that may stay in execute for ever: unbounded attempts, a task
\* that never succeeds, a token that is not cancelled.
Unbounded(s) == spolicy[s].MaxAttempts < 1 /\ ssucc[s] = 0 /\ ~ctxDone

\* C6 as amended: an accepted submission is never lost, and it reaches a
\* terminal outcome (success, attempts exhausted, cancellation observed) unless
\* its policy leaves the attempts unbounded (MaxAttempts = 0), its callable
\* never succeeds and the token is never cancelled.
C6_TerminalUnlessUnbounded ==
    /\ [](\A s \in Subs : Accepted(s) => Holders(s) # {} \/ outcome[s] # "none")
    /\ \A s \in Subs : (Accepted(s) /\ ~Unbounded(s)) ~> outcome[s] # "none"

C6_Witness ==
    \E s \in Subs : Accepted(s) /\ outcome[s] = "cancelled"

JitterOn(policy) == ~JitterOff(policy.Jitter)

\* wait <= bound * (1 + jitter), the jitter being a fraction
WithinJitter(w, bound, factor) == w * factor[2] <= bound * (factor[2] + factor[1])

\* C7 as stated: for every retry policy with jitter in (0, 1] every
\* inter-attempt wait is >= base_delay and <= max(base_delay, max_delay) * (1 + jitter).
C7_WaitBounds ==
    \A w \in Workers :
        LET policy == spolicy[wsub[w]]
        IN (wpc[w] = "backoff" /\ JitterOn(policy))
           => /\ wait[w] >= policy.BaseDelay
              /\ WithinJitter(wait[w], Max(policy.BaseDelay, policy.MaxDelay), policy.Jitter)

\* Twice the largest delay of the policy is a Duration: no doubling and no
\* addition of jitter overflows.
NoOverflow(policy) == 2 * Max(InitDelay(policy), policy.MaxDelay) < DurHalf

\* C7 as amended: for every retry policy with a cap (max_delay > 0), jitter in
\* (0, 1] and delays whose double does not overflow, every inter-attempt wait
\* is >= min(base_delay, max_delay) and <= max(d0, max_delay) * (1 + jitter),
\* where d0 is base_delay, or 1 ms when base_delay is 0.
C7_WaitBoundsCapped ==
    \A w \in Workers :
        LET policy == spolicy[wsub[w]]
        IN (wpc[w] = "backoff" /\ JitterOn(policy) /\ policy.MaxDelay > 0 /\ NoOverflow(policy))
           => /\ wait[w] >= Min(policy.BaseDelay, policy.MaxDelay)
              /\ WithinJitter(wait[w], Max(InitDelay(policy), policy.MaxDelay), policy.Jitter)

\* A jittered wait after the delay has reached the cap.
C7_Witness ==
    \E w \in Workers :
        /\ wpc[w] = "backoff"
        /\ JitterOn(spolicy[wsub[w]])
        /\ spolicy[wsub[w]].MaxDelay > 0
        /\ delay[w] = spolicy[wsub[w]].MaxDelay
        /\ wait[w] > delay[w]

\* C8: Submit and TrySubmit return true exactly when a worker received the
\* submission: a submission is received in the step that makes its call return
\* true and at no other time, at most one worker holds it, and a submission
\* whose call returned false is held and executed by no worker.
C8_HandOff ==
    /\ [](\A s \in Subs :
            /\ Cardinality(Holders(s)) <= 1
            /\ Accepted(s) <=> (Holders(s) # {} \/ outcome[s] # "none"))
    /\ [][\A s \in Subs, w \in Workers :
            (wsub'[w] = s /\ wsub[w] # s) => (~Accepted(s) /\ Accepted(s)')]_vars

C8_Witness ==
    \E s, s2 \in Subs, w \in Workers :
        /\ Accepted(s)
        /\ Holders(s) = {w}
        /\ wpc[w] = "call"
        /\ Returned(s2) = "false"

InExecute(w) == wpc[w] \in {"check", "enter", "call", "backoff", "bwoken"}

\* C9: TrySubmit never blocks: the call ends in the step that starts it; it
\* returns false when every worker is busy inside execute, and it returns true
\* only when a worker parked at the hand-off received the submission.
C9_TrySubmit ==
    /\ [](\A s \in Subs : skind[s] = "try" => Returned(s) # "none")
    /\ [][\A s \in Subs :
            (spc[s] = "new" /\ skind'[s] = "try")
            => /\ (\A w \in Workers : InExecute(w)) => Returned(s)' = "false"
               /\ Accepted(s)'
                    => \E w \in Workers : wpc[w] = "parked" /\ wsub'[w] = s]_vars

\* A TrySubmit refused while the token is live and every worker is busy.
C9_Witness ==
    \E s \in Subs :
        /\ skind[s] = "try"
        /\ spc[s] = "busy"
        /\ ~ctxDone
        /\ \A w \in Workers : InExecute(w)

\* The state of the Manager (its token, wait group, workers and hand-off).
ManagerVars == <<ctxDone, wgCount, wpc, wsub, attempts, delay, wait, spc, outcome>>

\* C10: Shutdown is idempotent: every call, the first or a later one,
\* sequential or concurrent, returns; when it has returned the token is
\* cancelled and all workers have terminated; and a call made when the token is
\* already cancelled changes nothing of the Manager.
C10_ShutdownIdempotent ==
    /\ [](\A c \in ShutCallers :
            shpc[c] = "returned"
            => ctxDone /\ wgCount = 0 /\ \A w \in Workers : wpc[w] = "exited")
    /\ [][(ctxDone /\ shpc' # shpc) => UNCHANGED ManagerVars]_vars
    /\ \A c \in ShutCallers : shpc[c] = "wait" ~> shpc[c] = "returned"

C10_Witness ==
    /\ shpc[1] = "returned"
    /\ shpc[2] = "returned"

\* C11: after the token is cancelled (by the parent or by Shutdown), the running
\* callables returning once they observe the cancellation, all workers
\* eventually terminate and every Wait returns; a task whose callable waits on
\* the token does not complete successfully after the cancellation.
C11_CancelTerminates ==
    /\ ctxDone ~> (\A w \in Workers : wpc[w] = "exited")
    /\ \A c \in ShutCallers : (shpc[c] = "wwait" /\ ctxDone) ~> shpc[c] = "wreturned"
    /\ [](\A c \in ShutCallers :
            shpc[c] = "wreturned" => \A w \in Workers : wpc[w] = "exited")
    /\ [][\A w \in Workers :
            (wpc[w] = "call" /\ WaitsOnToken(ssucc[wsub[w]]) /\ wpc'[w] # "call")
            => (ctxDone /\ outcome'[wsub[w]] \in {"exhausted", "cancelled"})]_vars

\* A Wait has returned after a cancellation that found a callable waiting on
\* the token.
C11_Witness ==
    /\ \E c \in ShutCallers : shpc[c] = "wreturned"
    /\ \E s \in Subs : spc[s] = "true" /\ outcome[s] = "exhausted"
    /\ \A w \in Workers : wpc[w] = "exited"

\* C12: New with n < 1 creates exactly one worker; a task submitted to that
\* Manager with Submit is accepted (the call does not return false, and
\* returns true) and its callable runs, as long as the token is not cancelled
\* and the worker is not held for ever by an earlier task with unbounded retries.
C12_ZeroWorkersOne ==
    /\ [](nArg < 1 => Cardinality(Workers) = 1)
    /\ [](\A s \in Subs :
            (nArg < 1 /\ skind[s] = "submit" /\ Returned(s) = "false") => ctxDone)
    /\ \A s \in Subs :
          (nArg < 1 /\ skind[s] = "submit" /\ spc[s] \in {"parked", "true"}
             /\ outcome[s] = "none")
          ~> \/ ctxDone
             \/ spc[s] = "true" /\ \E w \in Workers : wsub[w] = s /\ wpc[w] = "call"
             \/ \E s2 \in Subs \ {s} : Accepted(s2) /\ Unbounded(s2)

\* The callable of a task given to Submit runs on the one worker of New(ctx, 0).
C12_Witness ==
    /\ nArg < 1
    /\ ~ctxDone
    /\ \E s \in Subs :
          /\ skind[s] = "submit" /\ spc[s] = "true"
          /\ \E w \in Workers : wsub[w] = s /\ wpc[w] = "call"

\* The documents with createdAt < cutoff
Matching == {d \in Docs : createdAt[d] < cutoff}

\* The documents of the pages given to Submit, in the order of the calls
RECURSIVE Flat(_)
Flat(ps) == IF ps = <<>> THEN <<>> ELSE ps[1].docs \o Flat(Tail(ps))

\* The pages whose Submit returned true
Handed == SelectSeq(pages, LAMBDA pg : pg.ok)

Range(seq) == {seq[i] : i \in DOMAIN seq}

SweepDone == pbpc = "returned" /\ pberr = "nil"

\* C13: for a static collection and a scheduler that stays open, the documents
\* ProcessBefore hands to the scheduler are exactly the documents with
\* createdAt < cutoff, each exactly once, for every page size and with
\* documents sharing one createdAt; no document is ever put in two pages and
\* no document at or after the cutoff in any.
C13_ExactlyMatching ==
    /\ \A i, j \in DOMAIN Flat(pages) : Flat(pages)[i] = Flat(pages)[j] => i = j
    /\ Range(Flat(pages)) \subseteq Matching
    /\ (SweepDone /\ ~ctxDone)
          => /\ Range(Flat(Handed)) = Matching
             /\ Len(Flat(Handed)) = Cardinality(Matching)

\* A sweep of several pages has ended over documents that share one createdAt.
C13_Witness ==
    /\ SweepDone /\ ~ctxDone
    /\ Len(pages) >= 2
    /\ \E d, e \in Matching : d # e /\ createdAt[d] = createdAt[e]

Ceil(m, q) == (m + q - 1) \div q

\* The documents below the cutoff in the descending (createdAt, _id) order
Desc(d, e) == createdAt[d] > createdAt[e] \/ (createdAt[d] = createdAt[e] /\ d > e)

Descending ==
    [i \in 1..Cardinality(Matching) |->
        CHOOSE d \in Matching : Cardinality({e \in Matching : Desc(e, d)}) = i - 1]

\* C14: with M documents below the cutoff and page size P, the batches are
\* consecutive segments of the descending (createdAt, _id) order, without gap
\* or overlap; every batch but the last has exactly P documents; a sweep that
\* ends with the scheduler open has dispatched ceil(M / P) batches and returns M.
C14_Segments ==
    /\ Flat(pages) = SubSeq(Descending, 1, Len(Flat(pages)))
    /\ \A i \in DOMAIN pages : i < Len(pages) => Len(pages[i].docs) = batchSize
    /\ \A i \in DOMAIN pages : Len(pages[i].docs) \in 1..batchSize
    /\ (SweepDone /\ ~ctxDone)
          => /\ Flat(Handed) = Descending
             /\ Len(Handed) = Ceil(Cardinality(Matching), batchSize)
             /\ total = Cardinality(Matching)

\* A sweep has ended with a last page shorter than the page size, after a full one.
C14_Witness ==
    /\ SweepDone /\ ~ctxDone
    /\ Len(pages) >= 2
    /\ Len(pages[Len(pages)].docs) < batchSize

RECURSIVE SumLen(_)
SumLen(ps) == IF ps = <<>> THEN 0 ELSE Len(ps[1].docs) + SumLen(Tail(ps))

Rejected == \E i \in DOMAIN pages : ~pages[i].ok

C16_ClaimWrittenOnce ==
    [][\A d \in DOMAIN claim : claim[d] # Absent => claim'[d] = claim[d]]_vars

\* Driver k has applied its update for a document that it processed and that
\* carries the claim of another driver.
C16_Witness ==
    \E k \in Drivers, d \in DOMAIN claim :
        /\ rpc[k] = "write"
        /\ d \in rresults[k] \ rwrite[k]
        /\ claim[d] \in Drivers \ {k}

AllReturned == \A k \in Drivers : rpc[k] = "returned"

StoreError == \E k \in Drivers : rerr[k] = "store"

\* C17: the drivers run concurrently, each with its own Manager; without a
\* cancellation and without a store error all of them return, and when they
\* have, every document that lacked a claim carries one claim value, that of
\* one of the drivers, and processFn was invoked on it at least once.
C17_AllClaimed ==
    /\ [](AllReturned /\ (\A k \in Drivers : rerr[k] = "nil")
            => \A d \in DOMAIN claim :
                  /\ claim[d] # Absent
                  /\ claim[d] \in Drivers => calls[d] >= 1)
    /\ <>(parentDone \/ StoreError \/ AllReturned)

\* All drivers have returned and one document was processed by two of them.
C17_Witness ==
    /\ AllReturned
    /\ \A k \in Drivers : rerr[k] = "nil"
    /\ \E d \in DOMAIN claim : claim[d] \in Drivers /\ calls[d] >= 2

FullyClaimed == \A d \in DOMAIN claim : claim[d] # Absent

\* C18: a Run started when every document carries a claim returns nil (without
\* a cancellation or a store error) from its first Find, so it never submits a
\* task or invokes processFn, and no claim value changes from then on.
C18_IdempotentWhenClaimed ==
    /\ [][FullyClaimed => claim' = claim]_vars
    /\ [][\A k \in Drivers :
            (FullyClaimed /\ rpc[k] \in {"sleep", "top", "find"})
            => /\ rpc'[k] \in {"sleep", "top", "find", "returned"}
               /\ rpc'[k] = "returned"
                    => \/ rerr'[k] = "nil"
                       \/ rerr'[k] = "canceled" /\ parentDone
                       \/ rerr'[k] = "store"
               /\ \A d \in DOMAIN claim : rtask'[k][d] = rtask[k][d]]_vars
    /\ \A k \in 1..MaxDrivers :
          (FullyClaimed /\ rpc[k] \in {"sleep", "top", "find"}) ~> rpc[k] = "returned"

\* A Run has returned nil on a collection that was fully claimed when it
\* started, with no invocation of processFn.
C18_Witness ==
    /\ \A d \in DOMAIN claim : claim[d] = Earlier /\ calls[d] = 0
    /\ \E k \in Drivers : rpc[k] = "returned" /\ rerr[k] = "nil"

\* C19: if the parent token is cancelled while Run is in progress, Run
\* eventually returns the cancellation, wherever it is.
C19_CancelReturns ==
    \A k \in 1..MaxDrivers :
        (parentDone /\ rpc[k] # "returned")
        ~> (rpc[k] = "returned" /\ rerr[k] = "canceled")

\* C20: the barrier of the page is decremented once for every document on every
\* exit path of its task (callable returned, task dropped on the cancellation,
\* Submit rejected): it counts the tasks given to Submit that have not ended.
C20_BarrierCountsOpenTasks ==
    \A k \in Drivers : rbarrier[k] = Cardinality(Active(k))

\* Driver k has not read a page yet.
Fresh(k) ==
    /\ \A d \in DOMAIN claim : rtask[k][d] = "none"
    /\ rresults[k] = {}
    /\ rwrite[k] = {}

\* No Submit call was made on the Manager.
NoSubmission == \A s \in Subs : spc[s] = "new" /\ outcome[s] = "none"

\* C21: if the token is already cancelled before the first fetch, ProcessBefore
\* and Run return the cancellation error; no task is submitted, so no user
\* callable is invoked, and nothing is written to the store.
C21_CancelledBeforeFetch ==
    /\ [][(pbpc = "fetch" /\ fetches = 0 /\ parentDone /\ pbpc' # "fetch")
            => (pbpc' = "returned" /\ pberr' = "canceled")]_vars
    /\ [](pbpc = "returned" /\ pberr = "canceled" /\ fetches = 0
            => total = 0 /\ pages = <<>> /\ NoSubmission)
    /\ [][\A k \in Drivers :
            (parentDone /\ Fresh(k) /\ rpc[k] \in {"sleep", "top", "find"})
            => /\ rpc'[k] \in {rpc[k], "top", "returned"}
               /\ rpc'[k] = "returned" => rerr'[k] = "canceled"
               /\ rtask'[k] = rtask[k] /\ rresults'[k] = {} /\ rwrite'[k] = {}]_vars

\* A ProcessBefore on a collection with matching documents has returned the
\* cancellation without a fetch.
C21_Witness ==
    /\ pbpc = "returned"
    /\ pberr = "canceled"
    /\ fetches = 0
    /\ \E d \in Docs : createdAt[d] < cutoff

\* No document of the collection matches: none is below the cutoff (ProcessBefore)
NoneBelowCutoff == pbpc # "idle" /\ \A d \in Docs : createdAt[d] >= cutoff

\* No document of the collection matches: none lacks a claim (Run)
NoneUnclaimed == pbpc = "idle" /\ \A d \in DOMAIN claim : claim[d] # Absent

\* C22: on a collection with no matching document ProcessBefore returns count 0
\* and Run returns, with a nil error when the token is live and the store
\* answers; neither submits a task (so no user callable is invoked) nor issues
\* a bulk write.
C22_NothingMatches ==
    /\ [](NoneBelowCutoff
            => /\ pbpc \in {"fetch", "returned"}
               /\ total = 0 /\ pages = <<>> /\ NoSubmission
               /\ fetches <= 1
               /\ (pbpc = "returned" /\ fetches = 1) => pberr = "nil")
    /\ [][\A k \in Drivers :
            (NoneUnclaimed /\ Fresh(k) /\ rpc[k] \in {"sleep", "top", "find"})
            => /\ rpc'[k] \in {rpc[k], "top", "find", "returned"}
               /\ (rpc[k] = "find" /\ rpc'[k] = "returned" /\ ~parentDone)
                    => rerr'[k] \in {"nil", "store"}
               /\ Fresh(k)']_vars
    /\ [](\A k \in Drivers :
            (rpc[k] = "returned" /\ rerr[k] = "nil" /\ Fresh(k)) => NoneUnclaimed)

\* A Run has returned nil from its first Find.
C22_Witness ==
    /\ NoneUnclaimed
    /\ \E k \in Drivers : rpc[k] = "returned" /\ rerr[k] = "nil" /\ Fresh(k)
    /\ \A d \in DOMAIN claim : calls[d] = 0

\* Driver k has stopped: it holds no task and does not change.
Stopped(k) ==
    /\ rpc'[k] = rpc[k] /\ rerr'[k] = rerr[k]
    /\ rtodo'[k] = rtodo[k] /\ rtask'[k] = rtask[k] /\ rwrite'[k] = rwrite[k]
    /\ Active(k) = {}

\* C23: a store error is fatal to the invocation: when a fetch of ProcessBefore
\* or Run or the bulk write of Run fails, the invocation returns that error
\* and fetches, submits and writes nothing more; ProcessBefore returns the
\* count dispatched before the failure with the error.
C23_StoreErrorFatal ==
    /\ [](pberr = "store" => (pbpc = "returned" /\ total = SumLen(Handed)))
    /\ [][pberr = "store"
            => (fetches' = fetches /\ pages' = pages /\ total' = total /\ pbpc' = pbpc
                /\ \A s \in Subs : spc[s] = "new" => spc'[s] = "new")]_vars
    /\ [](\A k \in Drivers : rerr[k] = "store" => rpc[k] = "returned")
    /\ [][\A k \in Drivers : rerr[k] = "store" => Stopped(k)]_vars
    /\ [][\A k \in Drivers :
            (rerr[k] = "store" /\ \A j \in Drivers \ {k} : rpc[j] = "returned")
            => claim' = claim]_vars

\* A Run has returned a store error from its bulk write, with some updates
\* applied and some not.
C23_Witness ==
    \E k \in Drivers :
        /\ rerr[k] = "store"
        /\ rwrite[k] # {} /\ rwrite[k] # rresults[k]

\* The policy of the submission worker w holds
PolicyOf(w) == spolicy[wsub[w]]

\* execute has taken its submission and made no attempt yet.
AtFirstCheck(w) == wpc[w] = "check" /\ attempts[w] = 0

\* C24 as stated: execute initialises the backoff delay to max(BaseDelay, 1 ms)
\* for every BaseDelay, including 0 and values strictly between 0 and 1 ms.
C24_InitialDelayIsMax ==
    \A w \in Workers :
        AtFirstCheck(w) => delay[w] = Max(PolicyOf(w).BaseDelay, Millisecond)

\* C24 as amended: execute initialises the backoff delay to 1 ms when BaseDelay
\* is 0 and to BaseDelay otherwise; a BaseDelay strictly between 0 and 1 ms is
\* kept as it is.
C24_InitialDelay ==
    \A w \in Workers :
        AtFirstCheck(w)
        => /\ PolicyOf(w).BaseDelay = 0 => delay[w] = Millisecond
           /\ PolicyOf(w).BaseDelay # 0 => delay[w] = PolicyOf(w).BaseDelay

\* execute starts with a BaseDelay strictly between 0 and 1 ms.
C24_Witness ==
    \E w \in Workers :
        /\ AtFirstCheck(w)
        /\ PolicyOf(w).BaseDelay > 0 /\ PolicyOf(w).BaseDelay < Millisecond
        /\ delay[w] < Millisecond

\* Worker w is in its k-th inter-attempt wait and the model has counted k:
\* the attempts counter is exact below the value where it is capped.
InWait(w, k) ==
    /\ wpc[w] = "backoff"
    /\ attempts[w] = k
    /\ PolicyOf(w).MaxAttempts > 0 \/ k < MaxK

JitterZero(policy) == policy.Jitter = <<0, 1>>

\* The closed form of the k-th wait for base delay d and cap m
ClosedForm(d, k, m) ==
    IF k = 1 THEN d
    ELSE IF m = 0 THEN d * 2 ^ (k - 1)
    ELSE Min(d * 2 ^ (k - 1), m)

\* C25 as stated: with jitter 0 and base delay d = BaseDelay the k-th
\* inter-attempt wait is d for k = 1, d*2^(k-1) for k >= 2 when MaxDelay = 0
\* and min(d*2^(k-1), MaxDelay) when MaxDelay > 0.
C25_WaitClosedFormOfBaseDelay ==
    \A w \in Workers : \A k \in 1..(MaxK + 1) :
        (InWait(w, k) /\ JitterZero(PolicyOf(w)))
        => wait[w] = ClosedForm(PolicyOf(w).BaseDelay, k, PolicyOf(w).MaxDelay)

\* The delay execute starts with: BaseDelay, or 1 ms when BaseDelay is 0
StartDelay(policy) == IF policy.BaseDelay = 0 THEN Millisecond ELSE policy.BaseDelay

\* d*2^(k-1) is a Duration: no doubling up to the k-th wait overflows.
Representable(d, k) == d * 2 ^ (k - 1) < DurHalf

\* C25 as amended: with jitter 0, d the delay execute starts with (BaseDelay,
\* or 1 ms when BaseDelay is 0) and d*2^(k-1) representable, the k-th
\* inter-attempt wait is d for k = 1, d*2^(k-1) for k >= 2 when MaxDelay = 0
\* and min(d*2^(k-1), MaxDelay) when MaxDelay > 0: the cap is applied only
\* after a wait, so the first wait equals d even when d > MaxDelay.
C25_WaitClosedForm ==
    \A w \in Workers : \A k \in 1..(MaxK + 1) :
        (/\ InWait(w, k)
         /\ JitterZero(PolicyOf(w))
         /\ Representable(StartDelay(PolicyOf(w)), k))
        => wait[w] = ClosedForm(StartDelay(PolicyOf(w)), k, PolicyOf(w).MaxDelay)

\* The second wait of a chain whose first wait was above the cap.
C25_Witness ==
    \E w \in Workers :
        /\ InWait(w, 2)
        /\ JitterZero(PolicyOf(w))
        /\ PolicyOf(w).MaxDelay > 0
        /\ PolicyOf(w).BaseDelay > PolicyOf(w).MaxDelay
        /\ wait[w] = PolicyOf(w).MaxDelay

\* The jitter factor is in (0, 1].
InUnitRange(factor) == factor[1] > 0 /\ factor[1] <= factor[2]

\* d <= w <= d + d * factor, the factor being a fraction
AdditiveOnly(w, d, factor) == d <= w /\ w * factor[2] <= d * (factor[2] + factor[1])

EndlessChain(w) ==
    /\ w \in Workers
    /\ wsub[w] # 0
    /\ PolicyOf(w).MaxAttempts = 0
    /\ ssucc[wsub[w]] = 0

\* C27: with MaxAttempts = 0 a callable that always fails is retried without
\* bound: execute returns only when the token is cancelled, with the
\* cancellation as its outcome and never because the attempts ran out, and
\* as long as the token is live every failed attempt is followed by another.
C27_UnboundedRetries ==
    /\ [][\A w \in Workers :
            (EndlessChain(w) /\ wsub'[w] = 0)
            => (ctxDone /\ outcome'[wsub[w]] = "cancelled")]_vars
    /\ \A w \in 1..MaxWorkers :
            (EndlessChain(w) /\ wpc[w] = "backoff") ~> (ctxDone \/ (w \in Workers /\ wpc[w] = "call"))

\* A retry of such a chain: its callable is running again, the token is live.
C27_Witness ==
    \E w \in Workers :
        /\ EndlessChain(w)
        /\ wpc[w] = "call"
        /\ attempts[w] >= 2
        /\ ~ctxDone

\* C28: if the token is cancelled while a task is in its backoff wait, the
\* wait is aborted; the task is abandoned with the cancellation as its outcome,
\* its callable is not invoked again and no worker takes it again; the worker
\* takes no other submission and exits.
C28_CancelInBackoff ==
    /\ [][\A w \in Workers :
            (wpc[w] = "backoff" /\ ~ctxDone /\ ctxDone') => wpc'[w] = "bwoken"]_vars
    /\ [][\A w \in Workers :
            wpc[w] = "bwoken"
            => /\ wpc'[w] \in {"bwoken", "loop"}
               /\ wpc'[w] = "loop" => (wsub'[w] = 0 /\ outcome'[wsub[w]] = "cancelled")]_vars
    /\ [][\A s \in Subs :
            outcome[s] = "cancelled" => (outcome'[s] = "cancelled" /\ Holders(s)' = {})]_vars
    /\ [][\A w \in Workers :
            (ctxDone /\ wpc[w] = "loop") => wpc'[w] \in {"loop", "exited"}]_vars
    /\ \A w \in 1..MaxWorkers : (w \in Workers /\ wpc[w] = "bwoken") ~> (w \in Workers /\ wpc[w] = "exited")

\* The backoff wait of a worker has just been aborted by the cancellation:
\* it still holds its task, whose callable has been invoked and has failed.
C28_Witness ==
    \E w \in Workers :
        /\ wpc[w] = "bwoken"
        /\ ctxDone
        /\ wsub[w] # 0
        /\ attempts[w] >= 1
        /\ outcome[wsub[w]] = "none"

\* The steps of a worker that holds a submission, in the order of execute
StepsInOrder(w) ==
    /\ (wpc'[w] = "check" /\ wpc[w] # "check") => (wsub[w] = 0 \/ wpc[w] = "backoff")
    /\ (wpc'[w] = "enter" /\ wpc[w] # "enter") => wpc[w] = "check"
    /\ (wpc'[w] = "call" /\ wpc[w] # "call") => (wpc[w] = "enter" /\ attempts'[w] >= 1)
    /\ (wpc'[w] = "backoff" /\ wpc[w] # "backoff")
            => (wpc[w] = "call" /\ (ssucc[wsub[w]] = 0 \/ attempts[w] < ssucc[wsub[w]]))

\* C29: the attempts of one submission are totally ordered: the worker that
\* received it keeps it until execute returns and no other worker ever holds
\* it; an attempt after the first starts only after the previous one has
\* returned a failure and the backoff timer has fired; two invocations of the
\* same submission never overlap.
C29_AttemptsOrdered ==
    /\ [](\A s \in Subs : Cardinality(Holders(s)) <= 1)
    /\ [][\A w \in Workers :
            /\ wsub[w] # 0 => wsub'[w] \in {wsub[w], 0}
            /\ (wsub[w] = 0 /\ wsub'[w] # 0)
                    => (outcome[wsub'[w]] = "none" /\ spc[wsub'[w]] \in {"new", "parked"})
            /\ wpc'[w] \in {"check", "enter", "call", "backoff", "bwoken"} => wsub'[w] # 0
            /\ StepsInOrder(w)]_vars

\* Two workers, each in a second attempt of its own submission
C29_Witness ==
    \E w \in Workers : \E v \in Workers \ {w} :
        /\ wpc[w] = "call" /\ attempts[w] >= 2
        /\ wpc[v] = "call" /\ attempts[v] >= 2
        /\ wsub[w] # wsub[v]

\* The submissions handed off and not yet terminal
InFlight == {s \in Subs : spc[s] = "true" /\ outcome[s] = "none"}

\* The N of the Manager: the n given to New, or 1 when n < 1
PoolSize == IF nArg < 1 THEN 1 ELSE nArg

\* C30: the Manager holds no queue: at every instant at most N submissions are
\* handed off and not yet terminal; a Submit call is blocked only while the
\* token is live and no worker waits at the hand-off, and it stops being blocked
\* only when the token is cancelled or a worker comes to the hand-off and takes
\* its submission.
C30_NoQueue ==
    /\ [](Cardinality(InFlight) <= PoolSize)
    /\ [](\A s \in Subs :
            spc[s] = "parked" => (~ctxDone /\ \A w \in Workers : wpc[w] # "parked"))
    /\ [][\A s \in Subs :
            (spc[s] = "parked" /\ spc'[s] # "parked")
            => \/ ~ctxDone /\ ctxDone' /\ spc'[s] = "woken"
               \/ /\ spc'[s] = "true"
                  /\ \E w \in Workers : wpc[w] = "loop" /\ wsub'[w] = s]_vars
    /\ [][\A s \in Subs :
            (spc[s] = "new" /\ spc'[s] = "parked")
            => (~ctxDone /\ \A w \in Workers : wpc[w] # "parked")]_vars

\* A Submit is blocked while N submissions are in the hands of the workers.
C30_Witness ==
    \E s \in Subs :
        /\ spc[s] = "parked"
        /\ skind[s] = "submit"
        /\ Cardinality(InFlight) = PoolSize

\* C31: a Submit call that is blocked because all workers are busy does not
\* block forever once the token is cancelled: the cancellation wakes it, it
\* eventually returns false, and no worker ever holds its task.
C31_BlockedSubmitReleased ==
    /\ [][\A s \in Subs :
            (spc[s] = "parked" /\ ~ctxDone /\ ctxDone') => spc'[s] = "woken"]_vars
    /\ [](\A s \in Subs :
            spc[s] \in {"woken", "aborted"} => (Holders(s) = {} /\ outcome[s] = "none"))
    /\ [][\A s \in Subs : spc[s] = "aborted" => spc'[s] = "aborted"]_vars
    /\ \A s \in Subs : spc[s] = "woken" ~> spc[s] = "aborted"

\* A Submit that blocked on a live Manager whose workers were busy has
\* returned false after the cancellation.
C31_Witness ==
    \E s \in Subs :
        /\ spc[s] = "aborted"
        /\ skind[s] = "submit"
        /\ startedWhen[s] = "live"
        /\ ctxDone

\* C32: ProcessBefore submits each fetched page as one task with
\* MaxAttempts = 1: execute invokes the callable of a page once and returns,
\* whether it succeeded or returned an error; a page whose task has ended is
\* not taken by a worker again, and no document is in two pages, so no
\* document is passed to the callable twice within one sweep.
C32_PageInvokedOnce ==
    /\ [](\A w \in Workers :
            wsub[w] # 0
            => /\ PolicyOf(w).MaxAttempts = 1
               /\ attempts[w] <= 1
               /\ wpc[w] \notin {"backoff", "bwoken"})
    /\ [][\A w \in Workers :
            (wpc[w] = "call" /\ wpc'[w] # "call")
            => /\ wpc'[w] = "loop"
               /\ attempts[w] = 1
               /\ outcome'[wsub[w]] = (IF ssucc[wsub[w]] = 1 THEN "success" ELSE "exhausted")]_vars
    /\ [][\A s \in Subs :
            (outcome[s] # "none" /\ outcome'[s] # "none") => Holders(s)' = {}]_vars
    /\ [](\A i, j \in DOMAIN pages :
            i # j => Range(pages[i].docs) \cap Range(pages[j].docs) = {})

\* The callable of a page has returned an error, the next page has been
\* handed to the scheduler.
C32_Witness ==
    /\ pbpc # "idle"
    /\ Len(pages) >= 2
    /\ \E s \in Subs : outcome[s] = "exhausted"
    /\ \E w \in Workers : wpc[w] = "call" /\ wsub[w] # 0

\* Driver k is the only Run invocation: the others have not started.
SingleDriver(k) == \A j \in Drivers \ {k} : rpc[j] = "sleep"

\* Every document carries a claim, and the callable was invoked once on the
\* documents driver k claimed and never on the others.
OncePerClaimed(k) ==
    \A d \in DOMAIN claim :
        /\ claim[d] \in {k, Earlier}
        /\ calls[d] = (IF claim[d] = k THEN 1 ELSE 0)

\* C33 as stated: with a single driver and no cancellation, the callable is
\* invoked exactly once for every document that lacked a claim, and after Run
\* returns every such document carries a claim.
C33_OnceAndClaimedAtReturn ==
    \A k \in Drivers :
        (SingleDriver(k) /\ ~parentDone /\ rpc[k] = "returned") => OncePerClaimed(k)

\* C33 as amended: with a single driver, no cancellation and no error of the
\* store (Run returns nil), Run gives each document of a page its own task,
\* the callable is invoked exactly once for every document that lacked a
\* claim and never for another, and after Run returns every such document
\* carries a claim; as long as the driver is alone no document is passed to
\* the callable twice.
C33_OnceAndClaimed ==
    \A k \in Drivers :
        SingleDriver(k)
        => /\ \A d \in DOMAIN claim : calls[d] <= 1
           /\ \A d \in DOMAIN claim : rtask[k][d] = "done" => calls[d] = 1
           /\ (rpc[k] = "returned" /\ rerr[k] = "nil") => OncePerClaimed(k)

\* A single Run has returned nil after claiming several documents.
C33_Witness ==
    \E k \in Drivers :
        /\ SingleDriver(k)
        /\ rpc[k] = "returned" /\ rerr[k] = "nil"
        /\ Cardinality({d \in DOMAIN claim : claim[d] = k}) >= 2
        /\ \A d \in DOMAIN claim : claim[d] = k => calls[d] = 1

\* The task of document d of driver k has reported: its callable was invoked
\* and its result is in the results of the page.
Reported(k, d) == rtask[k][d] = "done" /\ d \in rresults[k] /\ calls[d] >= 1

\* The task of document d of driver k ended without an invocation.
NotReported(k, d) == rtask[k][d] \in {"rejected", "dropped"}

\* C34: in Run a driver writes a claim only for a document whose callable was
\* invoked and reported a result in the current page, and the value written is
\* the value of that invocation (the driver's); a document whose task did not
\* report is not in the bulk write, gets no claim from this driver and stays
\* without a claim unless another driver writes one.
C34_ClaimOnlyReported ==
    /\ [][\A d \in DOMAIN claim :
            claim'[d] # claim[d]
            => \E k \in Drivers :
                  /\ rpc[k] = "write"
                  /\ d \in rwrite[k]
                  /\ Reported(k, d)
                  /\ claim'[d] = k]_vars
    /\ [](\A k \in Drivers : \A d \in rwrite[k] : Reported(k, d))
    /\ [](\A k \in Drivers : \A d \in DOMAIN claim :
            NotReported(k, d) => (d \notin rwrite[k] /\ claim[d] # k))

\* One document carries the claim of the driver whose task reported it; a
\* document whose task in another driver did not report carries none.
C34_Witness ==
    \E j, k \in Drivers : \E d, e \in DOMAIN claim :
        /\ claim[d] = j /\ Reported(j, d)
        /\ NotReported(k, e) /\ claim[e] = Absent

\* The documents at or after the configured cutoff
AtOrAfterCutoff == {d \in DOMAIN claim : createdAt[d] >= cutoff}

\* C35: when a createdAt cutoff is configured with WithCreatedAtCutoff, Run
\* reads, processes and claims only documents with createdAt < cutoff: a
\* document with createdAt >= cutoff is in no page, has no task, is never
\* passed to the callable and its claim attribute is never changed; a Run that
\* returns nil leaves no document below the cutoff without a claim.
C35_CutoffFrame ==
    /\ [](\A d \in AtOrAfterCutoff :
            /\ calls[d] = 0
            /\ \A k \in Drivers :
                  /\ rtask[k][d] = "none"
                  /\ d \notin (rtodo[k] \cup rresults[k] \cup rwrite[k]))
    /\ [][\A d \in AtOrAfterCutoff : claim'[d] = claim[d]]_vars
    /\ [](\A k \in Drivers :
            (rpc[k] = "returned" /\ rerr[k] = "nil")
            => \A d \in DOMAIN claim : createdAt[d] < cutoff => claim[d] # Absent)

\* A Run has returned nil: it claimed a document below the cutoff and left one
\* at or after the cutoff without a claim.
C35_Witness ==
    /\ cutoff # NoCutoff
    /\ \E k \in Drivers : \E d, e \in DOMAIN claim :
        /\ rpc[k] = "returned" /\ rerr[k] = "nil"
        /\ createdAt[d] < cutoff /\ claim[d] = k /\ calls[d] = 1
        /\ createdAt[e] >= cutoff /\ claim[e] = Absent /\ calls[e] = 0

\* The documents of the current page of driver k: len(docs) is the capacity
\* of its results channel
PageOf(k) == rtodo[k] \cup {d \in DOMAIN rtask[k] : rtask[k][d] # "none"}

\* The tasks of driver k that may still send a result
OpenTasks(k) == {d \in DOMAIN rtask[k] : rtask[k][d] \in {"queued", "enter"}}

\* The results channel of driver k is open: Run is between its make and its close.
ChannelOpen(k) == rpc[k] \in {"submit", "wait"}

\* C36: the results of a page are written at most once per document and read
\* only after the barrier has released: every send is the send of a task that
\* had not sent before, on an open channel; the results never exceed the page
\* (the capacity of the channel), so no send blocks; Run closes and reads the
\* channel only with the barrier at zero and no task left that could send.
C36_ResultsSink ==
    /\ [][\A k \in Drivers : \A d \in DOMAIN claim :
            (d \in rresults'[k] /\ (d \notin rresults[k] \/ rtask'[k][d] # rtask[k][d]))
            => /\ d \notin rresults[k]
               /\ rtask[k][d] = "enter" /\ rtask'[k][d] = "done"
               /\ ChannelOpen(k) /\ ChannelOpen(k)'
               /\ rresults'[k] = rresults[k] \cup {d}]_vars
    /\ [](\A k \in Drivers :
            /\ rresults[k] \subseteq PageOf(k)
            /\ Cardinality(rresults[k]) <= Cardinality(PageOf(k))
            /\ ~ChannelOpen(k) => OpenTasks(k) = {})
    /\ [][\A k \in Drivers :
            (rpc[k] = "wait" /\ rpc'[k] # "wait")
            => /\ rbarrier[k] = 0
               /\ OpenTasks(k) = {}
               /\ rwrite'[k] = rresults[k]]_vars

\* The results of a page of several documents are complete and are being written.
C36_Witness ==
    \E k \in Drivers :
        /\ rpc[k] = "write"
        /\ Cardinality(PageOf(k)) >= 2
        /\ rresults[k] = PageOf(k)

\* A worker holds a submission whose retries are not bounded.
UnboundedHeld == \E w \in Workers : wsub[w] # 0 /\ PolicyOf(w).MaxAttempts < 1

\* The premise of C37 has failed: the token is cancelled or some retries are
\* not bounded.
PremiseGone == ctxDone \/ UnboundedHeld

\* C37: if the token is never cancelled, every callable returns and retries
\* are bounded, every blocked Submit call eventually returns true and the
\* callable of every accepted submission is eventually invoked; no worker
\* exits while the token is live, and each worker returns to the hand-off
\* when its task ends and waits there or takes the next submission.
C37_SubmitServed ==
    /\ [](~ctxDone => \A w \in Workers : wpc[w] \notin {"woken", "exited"})
    /\ [][\A w \in Workers : (wsub[w] # 0 /\ wsub'[w] = 0) => wpc'[w] = "loop"]_vars
    /\ \A s \in Subs : spc[s] = "parked" ~> (spc[s] = "true" \/ PremiseGone)
    /\ \A s \in Subs :
          (spc[s] = "true" /\ outcome[s] = "none" /\ Holders(s) # {})
          ~> (ctxDone \/ \E w \in Holders(s) : wpc[w] = "call")
    /\ \A s \in Subs :
          (spc[s] = "true" /\ outcome[s] = "none") ~> (outcome[s] # "none" \/ PremiseGone)
    /\ \A w \in 1..MaxWorkers :
          (w \in Workers /\ wpc[w] = "loop")
          ~> (ctxDone \/ (w \in Workers /\ (wpc[w] = "parked" \/ wsub[w] # 0)))

\* Every Submit call was accepted and its task has ended, on a Manager with
\* one worker and a live token.
C37_Witness ==
    /\ ~ctxDone
    /\ Cardinality(Workers) = 1
    /\ \A s \in Subs :
          /\ skind[s] = "submit"
          /\ spc[s] = "true"
          /\ outcome[s] \in {"success", "exhausted"}

\* Worker w keeps, over the step, a submission with MaxDelay = 0 and
\* unbounded attempts.
KeepsUncapped(w) ==
    /\ wsub[w] # 0
    /\ wsub'[w] = wsub[w]
    /\ PolicyOf(w).MaxDelay = 0
    /\ PolicyOf(w).MaxAttempts = 0

\* C38: with MaxDelay = 0 and unbounded attempts, the backoff delay held by
\* execute stays positive and never decreases over any number of doublings,
\* the delay being a signed integer whose overflow wraps around.
C38_DelayPositiveMonotone ==
    [][\A w \in Workers :
          KeepsUncapped(w) => (delay[w] > 0 /\ delay'[w] > 0 /\ delay'[w] >= delay[w])]_vars

\* The cursor after the step is strictly below the cursor before it in the
\* (createdAt, _id) order.
CursorDecreases ==
    \/ lastTime' < lastTime
    \/ lastTime' = lastTime /\ lastID' < lastID

\* C39: ProcessBefore terminates on every finite static collection: it
\* eventually returns; the cursor (lastTime, lastID) strictly decreases in the
\* (createdAt, _id) order from one page to the next; with M matching documents
\* and page size P the number of fetches is at most floor(M/P) + 1.
C39_SweepTerminates ==
    /\ [][(~firstBatch /\ <<lastTime, lastID>>' # <<lastTime, lastID>>) => CursorDecreases]_vars
    /\ [][(fetches' # fetches /\ pbpc' = "submit" /\ ~firstBatch)
            => <<lastTime, lastID>>' # <<lastTime, lastID>>]_vars
    /\ [](pbpc # "idle" => fetches <= (Cardinality(Matching) \div batchSize) + 1)
    /\ <>(pbpc = "returned")

\* A sweep over two full pages has ended with its third fetch, an empty one.
C39_Witness ==
    /\ pbpc = "returned" /\ pberr = "nil"
    /\ Cardinality(Matching) = 2 * batchSize
    /\ fetches = 3
    /\ Len(pages) = 2

\* The documents without a claim when the Run invocations started: the
\* drivers write their own number, never the earlier claim.
UnclaimedAtStart == {d \in DOMAIN claim : claim[d] # Earlier}

\* Driver k is between two pages: its bulk write has ended.
BetweenPages(k) == rpc[k] \in {"top", "find"}

\* Run k ends, unless the parent cancels.
RunEnds(k) == <>(rpc[k] = "returned" \/ parentDone)

\* The pages of a Run are disjoint: after its bulk write every document of its
\* page carries a claim, and the next page holds only documents without one.
PagesDisjoint ==
    /\ [](\A k \in 1..MaxDrivers :
            BetweenPages(k) => \A d \in PageOf(k) : claim[d] # Absent)
    /\ [][\A k \in 1..MaxDrivers :
            (rpc[k] = "find" /\ rpc'[k] = "submit")
            => /\ rtodo'[k] \cap PageOf(k) = {}
               /\ \A d \in rtodo'[k] : claim[d] = Absent]_vars
    /\ [][\A d \in DOMAIN claim : claim[d] # Absent => claim'[d] = claim[d]]_vars

\* C40 as stated: with no cancellation every Run invocation terminates also
\* when several drivers share the collection; the pages of one Run are
\* disjoint; a Run over M unclaimed documents with page size P performs at
\* most floor(M/P) + 1 fetches.
C40_RunFetchesFloor ==
    /\ \A k \in 1..MaxDrivers : RunEnds(k)
    /\ PagesDisjoint
    /\ [](\A k \in 1..MaxDrivers :
            rfetches[k] <= (Cardinality(UnclaimedAtStart) \div batchSize) + 1)

\* C40 as amended: with no cancellation every Run invocation terminates also
\* when several drivers share the collection: by the end of a driver's bulk
\* write every document of its page carries a claim (its own or another
\* driver's), so two pages read by the same Run are disjoint, and a Run over M
\* unclaimed documents with page size P performs at most ceil(M/P) + 1
\* fetches: Run does not stop at a short page, it fetches until a page is empty.
C40_RunTerminates ==
    /\ \A k \in 1..MaxDrivers : RunEnds(k)
    /\ PagesDisjoint
    /\ [](\A k \in 1..MaxDrivers :
            rfetches[k] <= Ceil(Cardinality(UnclaimedAtStart), batchSize) + 1)

\* A Run has returned nil after a full page, a short page and an empty one,
\* on a collection where another driver has claimed a document.
C40_Witness ==
    \E k \in Drivers :
        /\ rpc[k] = "returned" /\ rerr[k] = "nil"
        /\ Cardinality(UnclaimedAtStart) % batchSize # 0
        /\ rfetches[k] = Ceil(Cardinality(UnclaimedAtStart), batchSize) + 1
        /\ rfetches[k] >= 3
        /\ \E d \in DOMAIN claim : claim[d] \notin {Absent, Earlier, k}

====
